---- MODULE Spec2Model ----
(***************************************************************************)
(* A model of tuna's plan execution engine, provider router and response   *)
(* file format (go.octolab.org/toolset/tuna).                              *)
(*                                                                         *)
(* Three specifications share this module:                                 *)
(*   SpecFormat - response.Format / response.ParseContent as functions     *)
(*   SpecFile   - one response file written by exec and rated by view      *)
(*   SpecExec   - Executor.Execute feeding the exec TUI model              *)
(*   SpecRouter - Router.Chat calls against the per-provider rate limiter  *)
(***************************************************************************)
EXTENDS Integers, Sequences, FiniteSets, TLC

VARIABLES
    \* ---- SpecFormat
    fmIn,        \* the (metadata, content) pair handed to Format
    fmOut,       \* what ParseContent returned for Format's output
    \* ---- SpecFile
    file,        \* text of the response file of one (model, query) task
    prevFile,    \* text of that file before the last operation
    lastOp,      \* the last operation applied to the file, with its arguments
    wallClock,   \* time.Now() as seen by the file operations
    \* ---- SpecExec: the plan, Executor.Execute and the exec TUI
    models,      \* plan.Assistant.LLM.Models
    queries,     \* the IDs of plan.Queries
    pc,          \* where Execute is
    mi, qi,      \* position of the two range loops of Execute
    outcome,     \* what executeOne returned for the current task
    summary,     \* *ExecutionSummary: <<>> is nil
    retErr,      \* Execute returned a non-nil error
    events,      \* every ProgressEvent handed to OnProgress, in order
    attempted,   \* the <<model index, query index>> of every executeOne call
    ioCount,     \* query-file reads, provider calls and file writes so far
    msgs,        \* messages sent to the tea.Program and not yet handled
    tui,         \* the tuiexec.Model
    \* ---- SpecResolve and SpecRouter: configuration and the llm.Router
    cfg,         \* the config.Config read from the file
    cfgStatus,   \* "loaded", then "accepted" or "rejected" (Validate, NewRouter)
    router,      \* the *Router NewRouter built: <<>> is nil
    resolved,    \* what ResolveModel returned, per name asked so far
    now,         \* the clock the rate limiters read, in milliseconds
    limiters,    \* per rate-limited provider, the state of its rate.Limiter
    calls,       \* the Router.Chat calls, per caller
    \* ---- SpecRun: one run of tuna exec, step by step inside executeOne
    options,     \* exec.Options: Parallel, Continue, DryRun
    preview,     \* the tasks Executor.DryRun listed, in order: <<>> before
    ctx,         \* the context handed to Execute: "live" or "cancelled"
    disk,        \* per output path, what the response file holds
    chat,        \* the llmClient.Chat call of the task in hand
    \* ---- the specifications of single functions
    arg,         \* the arguments the function is called with
    ret,         \* <<>> before the call, then <<what it returned>>
    \* ---- SpecTimed: one task of Execute against the clock
    timed,       \* where the task is, the clock and the times it read
    \* ---- SpecInteractive: executeWithTUI around Execute and the TUI
    command,     \* where executeWithTUI is, and what it read of the summary
    \* ---- SpecViewer: tuna view on one response
    viewer       \* the viewer's ModelResponse: its rating in memory

fileVars == <<file, prevFile, lastOp, wallClock>>
fmtVars  == <<fmIn, fmOut>>
execVars == <<models, queries, pc, mi, qi, outcome, summary, retErr, events,
              attempted, ioCount, msgs, tui>>
routerVars == <<cfg, cfgStatus, router, resolved, now, limiters, calls>>
runVars == <<options, preview, ctx, disk, chat>>
callVars == <<arg, ret>>
auxVars == <<timed, command, viewer>>
vars == <<fmIn, fmOut, file, prevFile, lastOp, wallClock,
          models, queries, pc, mi, qi, outcome, summary, retErr, events,
          attempted, ioCount, msgs, tui,
          cfg, cfgStatus, router, resolved, now, limiters, calls,
          options, preview, ctx, disk, chat, arg, ret, timed, command,
          viewer>>

(***************************************************************************)
(* Text.  A file is a sequence of tokens: a newline, the three dashes      *)
(* "---", a run of other text on one line, or a marshalled YAML mapping    *)
(* (its lines, without the final newline).                                 *)
(***************************************************************************)
NL   == [t |-> "nl"]
DASH == [t |-> "dash"]
TXT  == [t |-> "txt"]
YamlTok(doc) == [t |-> "yaml", doc |-> doc]

MaxContentLen == 3
MaxBodyLen == 2

RECURSIVE SeqsUpTo(_, _)
SeqsUpTo(S, n) ==
    IF n = 0 THEN {<<>>}
    ELSE LET shorter == SeqsUpTo(S, n - 1)
         IN  shorter \cup {Append(s, x) : s \in {q \in shorter : Len(q) = n - 1}, x \in S}

\* strings.TrimLeft(s, "\n")
RECURSIVE TrimLeftNL(_)
TrimLeftNL(s) ==
    IF s # <<>> /\ Head(s) = NL THEN TrimLeftNL(Tail(s)) ELSE s

\* strings.HasPrefix(s, "---\n")
BeginsWithFence(s) == Len(s) >= 2 /\ s[1] = DASH /\ s[2] = NL

\* frontMatterRegex (?s)^---\n(.+?)\n---\n : the match ends at the first
\* "\n---\n" that leaves a non-empty capture.  <<>> when there is no match,
\* else <<capture, rest of the text after the match>>.
FrontMatterEnds(s) ==
    {j \in 3..Len(s) : /\ j + 3 <= Len(s)
                       /\ s[j + 1] = NL /\ s[j + 2] = DASH /\ s[j + 3] = NL}

FrontMatterMatch(s) ==
    IF BeginsWithFence(s) /\ FrontMatterEnds(s) # {}
    THEN LET j == CHOOSE k \in FrontMatterEnds(s) : \A l \in FrontMatterEnds(s) : k <= l
         IN  <<SubSeq(s, 3, j), SubSeq(s, j + 4, Len(s))>>
    ELSE <<>>

(***************************************************************************)
(* YAML documents.  A mapping holds, per key, a scalar or nothing.         *)
(***************************************************************************)
Absent      == [k |-> "absent"]
Null        == [k |-> "null"]
Str(s)      == [k |-> "str", v |-> s]
Time(t)     == [k |-> "time", v |-> t]
\* "<n>t"
TokText(n)  == [k |-> "tok", n |-> n]
\* "<whole>ms" or "<whole>.<hundredths>s"
DurText(w, h, u) == [k |-> "dur", whole |-> w, hundredths |-> h, unit |-> u]

EmptyDoc ==
    [provider |-> Absent, model |-> Absent, duration |-> Absent, input |-> Absent,
     output |-> Absent, executed_at |-> Absent, rating |-> Absent, rated_at |-> Absent]

\* What yaml.Unmarshal sees in a front-matter capture: blank lines and
\* document markers carry nothing; one mapping is a document; anything else
\* (a plain line of text) does not decode into a struct.
DocTokens(capture) == SelectSeq(capture, LAMBDA x : x # NL /\ x # DASH)

\* A mapping decodes unless its duration is a text time.ParseDuration
\* refuses (Metadata.UnmarshalYAML).
YamlParses(capture) ==
    \/ DocTokens(capture) = <<>>
    \/ /\ Len(DocTokens(capture)) = 1
       /\ DocTokens(capture)[1].t = "yaml"
       /\ DocTokens(capture)[1].doc.duration.k # "str"

YamlDoc(capture) ==
    IF DocTokens(capture) = <<>> THEN EmptyDoc ELSE DocTokens(capture)[1].doc

(***************************************************************************)
(* response.Metadata and its YAML form (internal/response/metadata.go).    *)
(* Pointers are sequences: <<>> is nil, <<v>> points to v.  Times are      *)
(* instants, 0 the zero time.  Durations are nanoseconds.                  *)
(***************************************************************************)
MillisecondNs == 1000000
SecondNs == 1000000000

EmptyMetadata ==
    [Provider |-> "", Model |-> "", Duration |-> 0, Input |-> 0, Output |-> 0,
     ExecutedAt |-> 0, Rating |-> <<>>, RatedAt |-> <<>>]

\* fmt.Sprintf("%.2f", ms/1000) rounds the float64 quotient; on a tie in the
\* third decimal the binary value decides.  Ties that round up, among the
\* durations the model uses:
TiesRoundingUp == {1135, 1375}

\* formatDuration
formatDuration(d) ==
    LET ms == d \div MillisecondNs
    IN  IF ms < 1000 THEN DurText(ms, 0, "ms")
        ELSE LET cs == IF ms % 10 > 5 \/ (ms % 10 = 5 /\ ms \in TiesRoundingUp)
                       THEN ms \div 10 + 1 ELSE ms \div 10
             IN  DurText(cs \div 100, cs % 100, "s")

\* time.ParseDuration on the texts formatDuration writes
ParseDuration(x) ==
    IF x.unit = "ms" THEN x.whole * MillisecondNs
    ELSE (x.whole * 100 + x.hundredths) * (SecondNs \div 100)

\* parseTokens without strings.TrimSuffix: strconv.Atoi("100t") fails, n is 0
parseTokensNoTrim(x) == 0

\* parseTokens
parseTokens(x) == IF x.k = "tok" THEN x.n ELSE 0

\* Metadata.MarshalYAML followed by yaml.Marshal of metadataYAML
MarshalYAML(m) ==
    [provider    |-> IF m.Provider = "" THEN Absent ELSE Str(m.Provider),
     model       |-> IF m.Model = "" THEN Absent ELSE Str(m.Model),
     duration    |-> IF m.Duration > 0 THEN formatDuration(m.Duration) ELSE Absent,
     input       |-> IF m.Input > 0 THEN TokText(m.Input) ELSE Absent,
     output      |-> IF m.Output > 0 THEN TokText(m.Output) ELSE Absent,
     executed_at |-> IF m.ExecutedAt # 0 THEN Time(m.ExecutedAt) ELSE Absent,
     rating      |-> IF m.Rating = <<>> THEN Null ELSE Str(m.Rating[1]),
     rated_at    |-> IF m.RatedAt = <<>> THEN Null ELSE Time(m.RatedAt[1])]

\* Metadata.UnmarshalYAML
UnmarshalYAML(doc) ==
    [Provider   |-> IF doc.provider.k = "str" THEN doc.provider.v ELSE "",
     Model      |-> IF doc.model.k = "str" THEN doc.model.v ELSE "",
     Duration   |-> IF doc.duration.k = "dur" THEN ParseDuration(doc.duration) ELSE 0,
     Input      |-> parseTokens(doc.input),
     Output     |-> parseTokens(doc.output),
     ExecutedAt |-> IF doc.executed_at.k = "time" THEN doc.executed_at.v ELSE 0,
     Rating     |-> IF doc.rating.k = "str" THEN <<doc.rating.v>> ELSE <<>>,
     RatedAt    |-> IF doc.rated_at.k = "time" THEN <<doc.rated_at.v>> ELSE <<>>]

\* Metadata.IsEmpty
IsEmpty(m) ==
    /\ m.Provider = "" /\ m.Model = "" /\ m.Duration = 0
    /\ m.Input = 0 /\ m.Output = 0 /\ m.ExecutedAt = 0 /\ m.Rating = <<>>

\* response.Format without the IsEmpty test
FormatAlwaysBlock(m, content) ==
    <<DASH, NL, YamlTok(MarshalYAML(m)), NL, DASH, NL, NL>> \o TrimLeftNL(content)

\* response.Format
Format(m, content) ==
    IF IsEmpty(m) THEN TrimLeftNL(content)
    ELSE <<DASH, NL, YamlTok(MarshalYAML(m)), NL, DASH, NL, NL>> \o TrimLeftNL(content)

\* response.ParseContent with the block removed also when it does not decode
ParseContentDropBlock(data) ==
    LET match == FrontMatterMatch(data)
    IN  IF match # <<>>
        THEN IF ~YamlParses(match[1])
             THEN [meta |-> EmptyMetadata, content |-> TrimLeftNL(match[2])]
             ELSE [meta |-> UnmarshalYAML(YamlDoc(match[1])),
                   content |-> TrimLeftNL(match[2])]
        ELSE [meta |-> EmptyMetadata, content |-> TrimLeftNL(data)]

\* response.ParseContent
ParseContent(data) ==
    LET match == FrontMatterMatch(data)
    IN  IF match # <<>>
        THEN IF ~YamlParses(match[1])
             THEN [meta |-> EmptyMetadata, content |-> data]
             ELSE [meta |-> UnmarshalYAML(YamlDoc(match[1])),
                   content |-> TrimLeftNL(match[2])]
        ELSE [meta |-> EmptyMetadata, content |-> TrimLeftNL(data)]

(***************************************************************************)
(* view.Metadata and view.SaveRating (internal/view/metadata.go).  The     *)
(* viewer's metadata struct has two fields, rating and rated_at, both      *)
(* omitempty.                                                              *)
(***************************************************************************)
RatingNone == ""
RatingGood == "good"
RatingBad  == "bad"
Ratings == {RatingNone, RatingGood, RatingBad}

\* yaml.Unmarshal into view.Metadata (unknown keys are ignored; a failed
\* decode leaves the zero value, SaveRating ignores the error)
viewUnmarshal(capture) ==
    IF YamlParses(capture)
    THEN LET doc == YamlDoc(capture)
         IN  [Rating  |-> IF doc.rating.k = "str" THEN doc.rating.v ELSE "",
              RatedAt |-> IF doc.rated_at.k = "time" THEN doc.rated_at.v ELSE 0]
    ELSE [Rating |-> "", RatedAt |-> 0]

\* yaml.Marshal of view.Metadata
viewMarshal(m) ==
    [EmptyDoc EXCEPT
        !.rating   = IF m.Rating = "" THEN Absent ELSE Str(m.Rating),
        !.rated_at = IF m.RatedAt = 0 THEN Absent ELSE Time(m.RatedAt)]

\* The text SaveRating writes back for the text it read
SaveRatingText(data, rating, at) ==
    LET fresh    == IF rating = RatingNone
                    THEN [Rating |-> "", RatedAt |-> 0]
                    ELSE [Rating |-> rating, RatedAt |-> at]
        match    == FrontMatterMatch(data)
        existing == IF match # <<>>
                    THEN [viewUnmarshal(match[1]) EXCEPT
                             !.Rating = fresh.Rating, !.RatedAt = fresh.RatedAt]
                    ELSE fresh
        content  == IF match # <<>> THEN match[2] ELSE data
    IN  IF existing.Rating = "" /\ existing.RatedAt = 0
        THEN TrimLeftNL(content)
        ELSE <<DASH, NL, YamlTok(viewMarshal(existing)), NL, DASH, NL, NL>>
                 \o TrimLeftNL(content)

(***************************************************************************)
(* Inputs                                                                  *)
(***************************************************************************)
Alphabet == {NL, DASH, TXT}

\* contents that themselves open with a fenced block
FencedContents ==
    {pre \o <<DASH, NL, x, NL, DASH, NL>> \o post :
        pre \in {<<>>, <<NL>>}, x \in Alphabet, post \in {<<>>, <<TXT>>}}

Contents == SeqsUpTo(Alphabet, MaxContentLen) \cup FencedContents
Bodies   == SeqsUpTo(Alphabet, MaxBodyLen)

DurationSamples ==
    {0, 500000, 250 * MillisecondNs, 1005 * MillisecondNs, 1135 * MillisecondNs,
     1456 * MillisecondNs}

MetadataSamples ==
    [Provider : {"", "https://a/v1"}, Model : {"", "gpt-4"},
     Duration : DurationSamples, Input : {0, 100}, Output : {0, 200},
     ExecutedAt : {0, 1}, Rating : {<<>>, <<"good">>, <<"bad">>},
     RatedAt : {<<>>, <<2>>}]

\* exec.WriteOptions as executeOne fills them from a ChatResponse
WriteOptionsSamples ==
    {[ProviderURL |-> "https://a/v1", Model |-> "gpt-4",
      Duration |-> 250 * MillisecondNs, InputTokens |-> 100, OutputTokens |-> 200],
     [ProviderURL |-> "https://b/v1", Model |-> "gpt-4-turbo",
      Duration |-> 1456 * MillisecondNs, InputTokens |-> 150, OutputTokens |-> 0],
     [ProviderURL |-> "https://a/v1", Model |-> "gpt-4",
      Duration |-> 500000, InputTokens |-> 0, OutputTokens |-> 7]}

MaxClock == 4

\* The executor before any plan is loaded
NoOutcome == [kind |-> "none", model |-> "", prompt |-> 0, output |-> 0]

ExecIdle ==
    /\ models = <<>> /\ queries = <<>> /\ pc = "off" /\ mi = 0 /\ qi = 0
    /\ outcome = NoOutcome /\ summary = <<>> /\ retErr = FALSE
    /\ events = <<>> /\ attempted = <<>>
    /\ ioCount = [reads |-> 0, chats |-> 0, writes |-> 0]
    /\ msgs = <<>>
    /\ tui = [tasks |-> <<>>, current |-> 0, prompt |-> 0, output |-> 0, done |-> FALSE]

\* No configuration loaded, no router built
NoConfig == [DefaultProvider |-> "", Aliases |-> <<>>, Providers |-> <<>>]

RouterIdle ==
    /\ cfg = NoConfig /\ cfgStatus = "none" /\ router = <<>> /\ resolved = {}
    /\ now = 0 /\ limiters = <<>> /\ calls = <<>>

(***************************************************************************)
(* SpecFormat: Format then ParseContent on one input pair                  *)
(***************************************************************************)
FileIdle ==
    /\ file = <<>> /\ prevFile = <<>> /\ wallClock = 1
    /\ lastOp = [op |-> "none"]

NoChat == [phase |-> "none", calls |-> 0, hit |-> <<>>]

RunIdle ==
    /\ options = [Parallel |-> 1, Continue |-> FALSE, DryRun |-> FALSE]
    /\ preview = <<>> /\ ctx = "live" /\ disk = <<>> /\ chat = NoChat

CallIdle == arg = <<>> /\ ret = <<>>

NoCommand == [phase |-> "none", readWhileRunning |-> FALSE, saw |-> <<>>]

NoViewer == [loaded |-> FALSE, Rating |-> "", writable |-> TRUE]

AuxIdle == timed = <<>> /\ command = NoCommand /\ viewer = NoViewer

FormatIdle == fmIn = [m |-> EmptyMetadata, c |-> <<>>] /\ fmOut = <<>>

InitFormat ==
    /\ fmIn \in [m : MetadataSamples, c : Contents]
    /\ fmOut = <<>>
    /\ FileIdle
    /\ ExecIdle
    /\ RouterIdle
    /\ RunIdle /\ CallIdle /\ AuxIdle

FormatThenParse ==
    /\ fmOut = <<>>
    /\ fmOut' = <<ParseContent(Format(fmIn.m, fmIn.c))>>
    /\ UNCHANGED <<fmIn, fileVars, execVars, routerVars, runVars, callVars, auxVars>>

NextFormat == FormatThenParse

SpecFormat == InitFormat /\ [][NextFormat]_vars

(***************************************************************************)
(* SpecFile: the response file of one task, written by the engine          *)
(* (ResponseWriter.Write) and rated by the viewer (view.SaveRating)        *)
(***************************************************************************)
InitFile ==
    /\ file = <<>> /\ prevFile = <<>> /\ wallClock = 1
    /\ lastOp = [op |-> "none"]
    /\ FormatIdle
    /\ ExecIdle
    /\ RouterIdle
    /\ RunIdle /\ CallIdle /\ AuxIdle

\* A Write that carries the rating fields of the file it replaces
WriteKeepRating(content, opts) ==
    /\ wallClock < MaxClock
    /\ LET old  == IF file = <<>> THEN EmptyMetadata ELSE ParseContent(file[1]).meta
           meta == [Provider |-> opts.ProviderURL, Model |-> opts.Model,
                    Duration |-> opts.Duration, Input |-> opts.InputTokens,
                    Output |-> opts.OutputTokens, ExecutedAt |-> wallClock,
                    Rating |-> old.Rating, RatedAt |-> old.RatedAt]
       IN  file' = <<Format(meta, content)>>
    /\ prevFile' = file
    /\ lastOp' = [op |-> "Write", content |-> content, opts |-> opts, at |-> wallClock]
    /\ wallClock' = wallClock + 1
    /\ UNCHANGED <<fmtVars, execVars, routerVars, runVars, callVars, auxVars>>

\* ResponseWriter.Write: os.WriteFile replaces whatever the file held
Write(content, opts) ==
    /\ wallClock < MaxClock
    /\ LET meta == [Provider |-> opts.ProviderURL, Model |-> opts.Model,
                    Duration |-> opts.Duration, Input |-> opts.InputTokens,
                    Output |-> opts.OutputTokens, ExecutedAt |-> wallClock,
                    Rating |-> <<>>, RatedAt |-> <<>>]
       IN  file' = <<Format(meta, content)>>
    /\ prevFile' = file
    /\ lastOp' = [op |-> "Write", content |-> content, opts |-> opts, at |-> wallClock]
    /\ wallClock' = wallClock + 1
    /\ UNCHANGED <<fmtVars, execVars, routerVars, runVars, callVars, auxVars>>

\* view.SaveRating: os.ReadFile fails when the file does not exist
SaveRating(rating) ==
    /\ wallClock < MaxClock
    /\ file # <<>>
    /\ file' = <<SaveRatingText(file[1], rating, wallClock)>>
    /\ prevFile' = file
    /\ lastOp' = [op |-> "SaveRating", rating |-> rating, at |-> wallClock]
    /\ wallClock' = wallClock + 1
    /\ UNCHANGED <<fmtVars, execVars, routerVars, runVars, callVars, auxVars>>

NextFile ==
    \/ \E c \in Bodies, o \in WriteOptionsSamples : Write(c, o)
    \/ \E r \in Ratings : SaveRating(r)

SpecFile == InitFile /\ [][NextFile]_vars

(***************************************************************************)
(* Properties of the response file format                                  *)
(***************************************************************************)
\* The duration a file carries for a duration d: whole milliseconds below
\* one second, else a multiple of 10ms within 5ms of d's whole milliseconds.
AtDisplayPrecision(d, parsed) ==
    LET ms == d \div MillisecondNs
    IN  IF ms < 1000 THEN parsed = ms * MillisecondNs
        ELSE /\ parsed % (10 * MillisecondNs) = 0
             /\ parsed - ms * MillisecondNs \in (-5 * MillisecondNs)..(5 * MillisecondNs)

RatedBefore ==
    /\ prevFile # <<>>
    /\ ParseContent(prevFile[1]).meta.Rating \in {<<RatingGood>>, <<RatingBad>>}

\* C4 as stated: a Write over a file rated good or bad leaves a file whose
\* parsed metadata has no rating and no ratedAt, and whose execution fields
\* and content are exactly those handed to the Write.
C4_RewriteYieldsWrittenValues ==
    (lastOp.op = "Write" /\ RatedBefore) =>
        LET p == ParseContent(file[1])
        IN  /\ p.meta.Rating = <<>> /\ p.meta.RatedAt = <<>>
            /\ p.meta.Provider = lastOp.opts.ProviderURL
            /\ p.meta.Model = lastOp.opts.Model
            /\ p.meta.Duration = lastOp.opts.Duration
            /\ p.meta.Input = lastOp.opts.InputTokens
            /\ p.meta.Output = lastOp.opts.OutputTokens
            /\ p.meta.ExecutedAt = lastOp.at
            /\ p.content = lastOp.content

\* C4 amended: a Write over a file rated good or bad leaves a file whose
\* parsed metadata has no rating and no ratedAt; provider, model, token
\* counts and execution time are those of the new write, the duration is the
\* new one at the format's display precision, and the content is the new
\* content without its leading newlines.  Nothing of the old block survives.
C4_RewriteReplacesMetadata ==
    (lastOp.op = "Write" /\ RatedBefore) =>
        LET p == ParseContent(file[1])
        IN  /\ p.meta.Rating = <<>> /\ p.meta.RatedAt = <<>>
            /\ p.meta.Provider = lastOp.opts.ProviderURL
            /\ p.meta.Model = lastOp.opts.Model
            /\ AtDisplayPrecision(lastOp.opts.Duration, p.meta.Duration)
            /\ p.meta.Input = lastOp.opts.InputTokens
            /\ p.meta.Output = lastOp.opts.OutputTokens
            /\ p.meta.ExecutedAt = lastOp.at
            /\ p.content = TrimLeftNL(lastOp.content)

C4_Witness ==
    /\ lastOp.op = "Write" /\ RatedBefore
    /\ ParseContent(file[1]).meta.Rating = <<>>
    /\ ParseContent(file[1]).meta.ExecutedAt = lastOp.at

\* C5: saving a rating changes only rating and ratedAt; provider, model,
\* duration, token counts, executed_at and the body parse to the same values
\* before and after the save.
C5_SaveRatingKeepsExecutionMetadata ==
    (lastOp.op = "SaveRating") =>
        LET before == ParseContent(prevFile[1])
            after  == ParseContent(file[1])
        IN  /\ after.meta.Provider = before.meta.Provider
            /\ after.meta.Model = before.meta.Model
            /\ after.meta.Duration = before.meta.Duration
            /\ after.meta.Input = before.meta.Input
            /\ after.meta.Output = before.meta.Output
            /\ after.meta.ExecutedAt = before.meta.ExecutedAt
            /\ after.content = before.content

\* C6 as stated: for content not beginning with "---\n",
\* ParseContent(Format(m, c)) is exactly (m, c).
C6_RoundTripExact ==
    (fmOut # <<>> /\ ~BeginsWithFence(fmIn.c)) =>
        fmOut[1] = [meta |-> fmIn.m, content |-> fmIn.c]

\* C6 amended: ParseContent(Format(m, c)) returns c without its leading
\* newlines and, when m has a field other than ratedAt set, m's provider,
\* model, token counts, execution time, rating and ratedAt, and m's
\* duration at display precision; when m has no such field no block is
\* written and the metadata returned is empty, provided c after its leading
\* newlines does not begin with "---\n".
C6_RoundTripUpToDisplay ==
    (/\ fmOut # <<>>
     /\ ~(IsEmpty(fmIn.m) /\ BeginsWithFence(TrimLeftNL(fmIn.c)))) =>
        LET p == fmOut[1]
        IN  /\ p.content = TrimLeftNL(fmIn.c)
            /\ IF IsEmpty(fmIn.m) THEN p.meta = EmptyMetadata
               ELSE /\ p.meta.Provider = fmIn.m.Provider
                    /\ p.meta.Model = fmIn.m.Model
                    /\ AtDisplayPrecision(fmIn.m.Duration, p.meta.Duration)
                    /\ p.meta.Input = fmIn.m.Input
                    /\ p.meta.Output = fmIn.m.Output
                    /\ p.meta.ExecutedAt = fmIn.m.ExecutedAt
                    /\ p.meta.Rating = fmIn.m.Rating
                    /\ p.meta.RatedAt = fmIn.m.RatedAt

C6_Witness ==
    /\ fmOut # <<>>
    /\ fmIn.m.Input > 0 /\ fmIn.m.Rating = <<RatingGood>> /\ fmIn.m.RatedAt # <<>>
    /\ fmIn.m.Duration = 1456 * MillisecondNs
    /\ fmOut[1].meta.Duration = 1460 * MillisecondNs
    /\ fmOut[1].meta.Input = fmIn.m.Input
    /\ fmIn.c = <<NL, TXT, NL>>
    /\ fmOut[1].content = <<TXT, NL>>

(***************************************************************************)
(* SpecExec: Executor.Execute (internal/exec/executor.go) driven as in     *)
(* executeWithTUI (internal/command/exec.go): OnProgress sends a message   *)
(* to the tea.Program, whose event loop hands it to Model.Update           *)
(* (internal/tui/exec/model.go).                                           *)
(***************************************************************************)
MaxModels == 2
MaxQueries == 2

ModelNames == {"gpt-4", "claude-3"}
QueryNames == {"q1.md", "q2.md"}

\* ParseModels keeps the names in the order given and keeps repeats
PlanModels  == SeqsUpTo(ModelNames, MaxModels)
PlanQueries == SeqsUpTo(QueryNames, MaxQueries)

\* What executeOne can return: the query file cannot be read, Chat fails,
\* Write fails, or a Result with the token counts of the response.
Outcomes ==
    {[kind |-> k, model |-> "", prompt |-> 0, output |-> 0] :
        k \in {"readError", "chatError", "writeError"}}
    \cup {[kind |-> "ok", model |-> "resolved", prompt |-> 3, output |-> 7],
          [kind |-> "ok", model |-> "resolved", prompt |-> 5, output |-> 0]}

\* tuiexec.New with the two loops exchanged
NewTasksQueriesOuter(ms, qs) ==
    [k \in 1..(Len(ms) * Len(qs)) |->
        [Model   |-> ms[((k - 1) % Len(ms)) + 1],
         QueryID |-> qs[((k - 1) \div Len(ms)) + 1],
         Status  |-> "Pending"]]

\* tuiexec.New
NewTasks(ms, qs) ==
    [k \in 1..(Len(ms) * Len(qs)) |->
        [Model   |-> ms[((k - 1) \div Len(qs)) + 1],
         QueryID |-> qs[((k - 1) % Len(qs)) + 1],
         Status  |-> "Pending"]]

InitExec ==
    /\ models \in PlanModels
    /\ queries \in PlanQueries
    /\ pc = "Execute" /\ mi = 0 /\ qi = 0
    /\ outcome = NoOutcome /\ summary = <<>> /\ retErr = FALSE
    /\ events = <<>> /\ attempted = <<>>
    /\ ioCount = [reads |-> 0, chats |-> 0, writes |-> 0]
    /\ msgs = <<>>
    /\ tui = [tasks |-> NewTasks(models, queries), current |-> 0,
              prompt |-> 0, output |-> 0, done |-> FALSE]
    /\ FormatIdle
    /\ FileIdle
    /\ RouterIdle
    /\ RunIdle /\ CallIdle /\ AuxIdle

Event(type, o) ==
    [Type |-> type, Model |-> models[mi], QueryID |-> queries[qi],
     Prompt |-> o.prompt, Output |-> o.output]

\* Execute without the two length checks
ExecuteBeginUnchecked ==
    /\ pc = "Execute"
    /\ summary' = <<[Results |-> <<>>, Errors |-> <<>>,
                     TotalQueries |-> Len(queries), TotalModels |-> Len(models),
                     TotalTokens |-> [Prompt |-> 0, Output |-> 0]]>>
    /\ IF models = <<>> \/ queries = <<>>
       THEN pc' = "returned" /\ UNCHANGED <<mi, qi>>
       ELSE pc' = "notifyStart" /\ mi' = 1 /\ qi' = 1
    /\ UNCHANGED <<models, queries, outcome, retErr, events, attempted, ioCount,
                   msgs, tui, fmtVars, fileVars, routerVars, runVars, callVars, auxVars>>

\* Execute, up to the first iteration of the loops
ExecuteBegin ==
    /\ pc = "Execute"
    /\ IF models = <<>> \/ queries = <<>>
       THEN /\ retErr' = TRUE
            /\ pc' = "returned"
            /\ UNCHANGED <<summary, mi, qi>>
       ELSE /\ summary' = <<[Results |-> <<>>, Errors |-> <<>>,
                             TotalQueries |-> Len(queries), TotalModels |-> Len(models),
                             TotalTokens |-> [Prompt |-> 0, Output |-> 0]]>>
            /\ mi' = 1 /\ qi' = 1
            /\ pc' = "notifyStart"
            /\ UNCHANGED retErr
    /\ UNCHANGED <<models, queries, outcome, events, attempted, ioCount,
                   msgs, tui, fmtVars, fileVars, routerVars, runVars, callVars, auxVars>>

\* the loop body entered without the EventTaskStart notification
TaskStartSilent ==
    /\ pc = "notifyStart"
    /\ msgs = <<>>
    /\ pc' = "executeOne"
    /\ UNCHANGED <<models, queries, mi, qi, outcome, summary, retErr, attempted,
                   ioCount, events, msgs, tui, fmtVars, fileVars, routerVars, runVars, callVars, auxVars>>

\* the EventTaskStart notification; program.Send hands the message over
\* once the event loop is free to take it
TaskStart ==
    /\ pc = "notifyStart"
    /\ msgs = <<>>
    /\ events' = Append(events, Event("start", NoOutcome))
    /\ msgs' = Append(msgs, Event("start", NoOutcome))
    /\ pc' = "executeOne"
    /\ UNCHANGED <<models, queries, mi, qi, outcome, summary, retErr, attempted,
                   ioCount, tui, fmtVars, fileVars, routerVars, runVars, callVars, auxVars>>

\* executeOne: os.ReadFile, llmClient.Chat, writer.Write, each entered only
\* if the one before it succeeded
ExecuteOne(o) ==
    /\ pc = "executeOne"
    /\ attempted' = Append(attempted, <<mi, qi>>)
    /\ ioCount' = [reads  |-> ioCount.reads + 1,
                   chats  |-> ioCount.chats + (IF o.kind # "readError" THEN 1 ELSE 0),
                   writes |-> ioCount.writes
                                 + (IF o.kind \in {"writeError", "ok"} THEN 1 ELSE 0)]
    /\ outcome' = o
    /\ pc' = "report"
    /\ UNCHANGED <<models, queries, mi, qi, summary, retErr, events, msgs, tui,
                   fmtVars, fileVars, routerVars, runVars, callVars, auxVars>>

\* the advance of the two range loops
Advance ==
    IF qi < Len(queries) THEN pc' = "notifyStart" /\ qi' = qi + 1 /\ mi' = mi
    ELSE IF mi < Len(models) THEN pc' = "notifyStart" /\ qi' = 1 /\ mi' = mi + 1
    ELSE pc' = "returned" /\ UNCHANGED <<mi, qi>>

\* the loop body after executeOne, with the first error ending the run
TaskReportAbortOnError ==
    /\ pc = "report"
    /\ msgs = <<>>
    /\ LET sum == summary[1]
       IN  IF outcome.kind # "ok"
           THEN /\ summary' = <<[sum EXCEPT !.Errors =
                       Append(@, [Model |-> models[mi], QueryID |-> queries[qi],
                                  Kind |-> outcome.kind])]>>
                /\ events' = Append(events, Event("error", NoOutcome))
                /\ msgs' = Append(msgs, Event("error", NoOutcome))
                /\ pc' = "returned" /\ UNCHANGED <<mi, qi>>
           ELSE /\ summary' = <<[sum EXCEPT
                       !.Results = Append(@, [Model |-> outcome.model, QueryID |-> queries[qi],
                                              PromptTokens |-> outcome.prompt,
                                              OutputTokens |-> outcome.output]),
                       !.TotalTokens.Prompt = @ + outcome.prompt,
                       !.TotalTokens.Output = @ + outcome.output]>>
                /\ events' = Append(events, Event("done", outcome))
                /\ msgs' = Append(msgs, Event("done", outcome))
                /\ Advance
    /\ UNCHANGED <<models, queries, outcome, retErr, attempted, ioCount, tui,
                   fmtVars, fileVars, routerVars, runVars, callVars, auxVars>>

\* the loop body after executeOne, with the output tokens left out of the sum
TaskReportPromptOnly ==
    /\ pc = "report"
    /\ msgs = <<>>
    /\ LET sum == summary[1]
       IN  IF outcome.kind # "ok"
           THEN /\ summary' = <<[sum EXCEPT !.Errors =
                       Append(@, [Model |-> models[mi], QueryID |-> queries[qi],
                                  Kind |-> outcome.kind])]>>
                /\ events' = Append(events, Event("error", NoOutcome))
                /\ msgs' = Append(msgs, Event("error", NoOutcome))
           ELSE /\ summary' = <<[sum EXCEPT
                       !.Results = Append(@, [Model |-> outcome.model, QueryID |-> queries[qi],
                                              PromptTokens |-> outcome.prompt,
                                              OutputTokens |-> outcome.output]),
                       !.TotalTokens.Prompt = @ + outcome.prompt]>>
                /\ events' = Append(events, Event("done", outcome))
                /\ msgs' = Append(msgs, Event("done", outcome))
    /\ Advance
    /\ UNCHANGED <<models, queries, outcome, retErr, attempted, ioCount, tui,
                   fmtVars, fileVars, routerVars, runVars, callVars, auxVars>>

\* the loop body after executeOne: record the error or the result, notify,
\* go on with the next task
TaskReport ==
    /\ pc = "report"
    /\ msgs = <<>>
    /\ LET sum == summary[1]
       IN  IF outcome.kind # "ok"
           THEN /\ summary' = <<[sum EXCEPT !.Errors =
                       Append(@, [Model |-> models[mi], QueryID |-> queries[qi],
                                  Kind |-> outcome.kind])]>>
                /\ events' = Append(events, Event("error", NoOutcome))
                /\ msgs' = Append(msgs, Event("error", NoOutcome))
           ELSE /\ summary' = <<[sum EXCEPT
                       !.Results = Append(@, [Model |-> outcome.model, QueryID |-> queries[qi],
                                              PromptTokens |-> outcome.prompt,
                                              OutputTokens |-> outcome.output]),
                       !.TotalTokens.Prompt = @ + outcome.prompt,
                       !.TotalTokens.Output = @ + outcome.output]>>
                /\ events' = Append(events, Event("done", outcome))
                /\ msgs' = Append(msgs, Event("done", outcome))
    /\ Advance
    /\ UNCHANGED <<models, queries, outcome, retErr, attempted, ioCount, tui,
                   fmtVars, fileVars, routerVars, runVars, callVars, auxVars>>

\* Executor.DryRun: the rows of the execution matrix it prints, a block per
\* model with a row per query
RECURSIVE DryRun(_, _)
DryRun(ms, qs) ==
    IF ms = <<>> THEN <<>>
    ELSE [j \in 1..Len(qs) |-> [Model |-> Head(ms), QueryID |-> qs[j]]]
             \o DryRun(Tail(ms), qs)

\* tuna exec --dry-run: the preview is printed and nothing is executed
DryRunPreview ==
    /\ pc = "Execute"
    /\ options' = [options EXCEPT !.DryRun = TRUE]
    /\ preview' = DryRun(models, queries)
    /\ pc' = "previewed"
    /\ UNCHANGED <<models, queries, mi, qi, outcome, summary, retErr, events,
                   attempted, ioCount, msgs, tui, ctx, disk, chat,
                   fmtVars, fileVars, routerVars, callVars, auxVars>>

\* the goroutine of executeWithTUI after Execute returned
ExecutionDone ==
    /\ pc = "returned"
    /\ msgs = <<>>
    /\ msgs' = Append(msgs, [Type |-> "executionDone", Model |-> "", QueryID |-> "",
                             Prompt |-> 0, Output |-> 0])
    /\ pc' = "finished"
    /\ UNCHANGED <<models, queries, mi, qi, outcome, summary, retErr, events,
                   attempted, ioCount, tui, fmtVars, fileVars, routerVars, runVars, callVars, auxVars>>

\* the index of the first task a message names, 0 if there is none
FirstMatch(tasks, msg) ==
    LET hits == {k \in 1..Len(tasks) :
                    tasks[k].Model = msg.Model /\ tasks[k].QueryID = msg.QueryID}
    IN  IF hits = {} THEN 0 ELSE CHOOSE k \in hits : \A l \in hits : k <= l

\* Model.Update
Update(m, msg) ==
    LET i == FirstMatch(m.tasks, msg)
    IN  CASE msg.Type = "start" /\ i # 0 ->
                [m EXCEPT !.tasks[i].Status = "Running", !.current = i]
          [] msg.Type = "done" /\ i # 0 ->
                [m EXCEPT !.tasks[i].Status = "Complete",
                          !.prompt = @ + msg.Prompt, !.output = @ + msg.Output]
          [] msg.Type = "error" /\ i # 0 ->
                [m EXCEPT !.tasks[i].Status = "Failed"]
          [] msg.Type = "executionDone" ->
                [m EXCEPT !.done = TRUE]
          [] OTHER -> m

\* the event loop of the tea.Program taking one message
TuiUpdate ==
    /\ msgs # <<>>
    /\ tui' = Update(tui, Head(msgs))
    /\ msgs' = Tail(msgs)
    /\ UNCHANGED <<models, queries, pc, mi, qi, outcome, summary, retErr, events,
                   attempted, ioCount, fmtVars, fileVars, routerVars, runVars, callVars, auxVars>>

NextExec ==
    \/ ExecuteBegin
    \/ TaskStart
    \/ \E o \in Outcomes : ExecuteOne(o)
    \/ TaskReport
    \/ ExecutionDone
    \/ TuiUpdate
    \/ DryRunPreview

SpecExec == InitExec /\ [][NextExec]_vars

(***************************************************************************)
(* Properties of Execute                                                   *)
(***************************************************************************)
Returned == pc \in {"returned", "finished"}

TaskPositions == (1..Len(models)) \X (1..Len(queries))

RECURSIVE SumOf(_, _)
SumOf(results, field) ==
    IF results = <<>> THEN 0
    ELSE (IF field = "prompt" THEN Head(results).PromptTokens
          ELSE Head(results).OutputTokens) + SumOf(Tail(results), field)

\* C1: for a plan with at least one model and one query, Execute returns a
\* summary and no error whatever tasks failed; by then every task position
\* of models x queries has had exactly one executeOne call, and the results
\* and errors together number |models| x |queries|.
C1_AllTasksAttemptedOnce ==
    (Returned /\ models # <<>> /\ queries # <<>>) =>
        /\ ~retErr
        /\ summary # <<>>
        /\ Len(summary[1].Results) + Len(summary[1].Errors) = Len(models) * Len(queries)
        /\ \A pos \in TaskPositions :
               Cardinality({k \in 1..Len(attempted) : attempted[k] = pos}) = 1
        /\ Len(attempted) = Len(models) * Len(queries)

C1_Witness ==
    /\ pc = "returned" /\ summary # <<>>
    /\ Len(models) = 2 /\ Len(queries) = 2
    /\ Len(summary[1].Errors) = 2 /\ Len(summary[1].Results) = 2
    /\ summary[1].Errors[1].Model = models[1]
    /\ summary[1].Errors[1].QueryID = queries[1]
    /\ attempted[4] = <<2, 2>>

\* C7: the status the TUI tracks for each task only moves
\* Pending -> Running -> (Complete | Failed): a Complete or Failed task
\* keeps its status, and a Running task does not become Pending again.
C7_StatusOnlyMovesForward ==
    [][\A k \in DOMAIN tui.tasks :
          LET old == tui.tasks[k].Status
              new == tui'.tasks[k].Status
          IN  /\ old \in {"Complete", "Failed"} => new = old
              /\ old = "Running" => new # "Pending"
              /\ old = "Pending" => new \in {"Pending", "Running"}]_vars

\* C9: for a plan with no models or no queries, Execute returns an error
\* and no summary, and no query file was read, no provider called, no file
\* written and no progress event emitted.
C9_EmptyPlanFailsFast ==
    (models = <<>> \/ queries = <<>>) =>
        /\ ioCount = [reads |-> 0, chats |-> 0, writes |-> 0]
        /\ events = <<>> /\ attempted = <<>>
        /\ Returned => (retErr /\ summary = <<>>)

C9_Witness ==
    /\ pc = "returned" /\ retErr /\ summary = <<>>
    /\ Len(models) = 2 /\ queries = <<>>

\* C10: on return the token totals are the sums of the prompt and output
\* token counts over the tasks listed in Results.
C10_TotalsSumResults ==
    (Returned /\ summary # <<>>) =>
        /\ summary[1].TotalTokens.Prompt = SumOf(summary[1].Results, "prompt")
        /\ summary[1].TotalTokens.Output = SumOf(summary[1].Results, "output")

C10_Witness ==
    /\ pc = "returned" /\ summary # <<>>
    /\ Len(summary[1].Results) = 3 /\ Len(summary[1].Errors) = 1
    /\ summary[1].TotalTokens.Prompt = 11
    /\ summary[1].TotalTokens.Output = 14

(***************************************************************************)
(* Configuration (package config) and the router (package llm).            *)
(* time.Duration is counted in milliseconds here.                          *)
(***************************************************************************)
SecondMs == 1000
MinuteMs == 60000
HourMs   == 3600000

Digits == {"0", "1", "2", "3", "4", "5", "6", "7", "8", "9"}
DigitValue(ch) ==
    CASE ch = "0" -> 0 [] ch = "1" -> 1 [] ch = "2" -> 2 [] ch = "3" -> 3
      [] ch = "4" -> 4 [] ch = "5" -> 5 [] ch = "6" -> 6 [] ch = "7" -> 7
      [] ch = "8" -> 8 [] ch = "9" -> 9

\* strconv.Atoi of a run of digits
RECURSIVE Atoi(_)
Atoi(ds) == IF ds = <<>> THEN 0 ELSE Atoi(SubSeq(ds, 1, Len(ds) - 1)) * 10 + DigitValue(ds[Len(ds)])

\* the length of the leading run of digits of a text
RECURSIVE DigitRun(_)
DigitRun(txt) == IF txt # <<>> /\ Head(txt) \in Digits THEN 1 + DigitRun(Tail(txt)) ELSE 0

UnitTexts == {<<"r", "p", "s">>, <<"r", "p", "m">>, <<"r", "p", "h">>}

\* a run of digits without its leading zeros
RECURSIVE StripZeros(_)
StripZeros(ds) == IF ds # <<>> /\ Head(ds) = "0" THEN StripZeros(Tail(ds)) ELSE ds

\* a <= b for two runs of digits of the same length
RECURSIVE DigitsLeq(_, _)
DigitsLeq(a, b) ==
    \/ a = <<>>
    \/ DigitValue(Head(a)) < DigitValue(Head(b))
    \/ Head(a) = Head(b) /\ DigitsLeq(Tail(a), Tail(b))

\* the largest int, for a build whose int has 32 bits
IntMaxDigits == <<"2", "1", "4", "7", "4", "8", "3", "6", "4", "7">>

\* strconv.Atoi returns no range error
AtoiInRange(ds) ==
    LET sig == StripZeros(ds)
    IN  \/ Len(sig) < Len(IntMaxDigits)
        \/ Len(sig) = Len(IntMaxDigits) /\ DigitsLeq(sig, IntMaxDigits)

\* ParseRateLimit without the test of the value
ParseRateLimitAnyValue(txt) ==
    LET n    == DigitRun(txt)
        unit == SubSeq(txt, n + 1, Len(txt))
    IN  IF txt = <<>> THEN [err |-> FALSE, none |-> TRUE, Value |-> 0, Unit |-> 0]
        ELSE IF n = 0 \/ unit \notin UnitTexts \/ ~AtoiInRange(SubSeq(txt, 1, n))
        THEN [err |-> TRUE, none |-> TRUE, Value |-> 0, Unit |-> 0]
        ELSE [err |-> FALSE, none |-> FALSE, Value |-> Atoi(SubSeq(txt, 1, n)),
              Unit |-> CASE unit[3] = "s" -> SecondMs
                         [] unit[3] = "m" -> MinuteMs
                         [] unit[3] = "h" -> HourMs]

\* ParseRateLimit: a text is a sequence of characters.  none is the nil
\* result for the empty string.
ParseRateLimit(txt) ==
    LET n    == DigitRun(txt)
        unit == SubSeq(txt, n + 1, Len(txt))
    IN  IF txt = <<>> THEN [err |-> FALSE, none |-> TRUE, Value |-> 0, Unit |-> 0]
        ELSE IF \/ n = 0 \/ unit \notin UnitTexts
                \/ ~AtoiInRange(SubSeq(txt, 1, n))
                \/ Atoi(SubSeq(txt, 1, n)) <= 0
        THEN [err |-> TRUE, none |-> TRUE, Value |-> 0, Unit |-> 0]
        ELSE [err |-> FALSE, none |-> FALSE, Value |-> Atoi(SubSeq(txt, 1, n)),
              Unit |-> CASE unit[3] = "s" -> SecondMs
                         [] unit[3] = "m" -> MinuteMs
                         [] unit[3] = "h" -> HourMs]

\* Provider.ResolveAPIToken succeeds.  Token says how the credential is
\* given: "direct" (api_token), "env" (api_token_env, variable set),
\* "envUnset" (api_token_env, variable not set), "none".
ResolveAPITokenOK(p) == p.Token \in {"direct", "env"}

\* Config.Validate without the check that default_provider names a provider
ValidateAnyDefault(c) ==
    /\ c.DefaultProvider # ""
    /\ Len(c.Providers) > 0
    /\ \A i \in 1..Len(c.Providers) :
          LET p == c.Providers[i]
          IN  /\ p.Name # ""
              /\ \A j \in 1..(i - 1) : c.Providers[j].Name # p.Name
              /\ p.BaseURL # ""
              /\ p.Token # "none"
              /\ ~ParseRateLimit(p.RateLimit).err
    /\ \A a \in DOMAIN c.Aliases : a # "" /\ c.Aliases[a] # ""

\* Config.Validate returns nil
Validate(c) ==
    /\ c.DefaultProvider # ""
    /\ Len(c.Providers) > 0
    /\ \A i \in 1..Len(c.Providers) :
          LET p == c.Providers[i]
          IN  /\ p.Name # ""
              /\ \A j \in 1..(i - 1) : c.Providers[j].Name # p.Name
              /\ p.BaseURL # ""
              /\ p.Token # "none"
              /\ ~ParseRateLimit(p.RateLimit).err
    /\ \E i \in 1..Len(c.Providers) : c.Providers[i].Name = c.DefaultProvider
    /\ \A a \in DOMAIN c.Aliases : a # "" /\ c.Aliases[a] # ""

\* the rate.Limiter NewRouter builds for a parsed rate limit:
\* rate.NewLimiter(rate.Every(rl.Unit / rl.Value), 2)
NewLimiterBurstTwo(rl) == [interval |-> rl.Unit \div rl.Value, burst |-> 2]

\* the rate.Limiter NewRouter builds for a parsed rate limit:
\* rate.NewLimiter(rate.Every(rl.Unit / rl.Value), 1)
NewLimiter(rl) == [interval |-> rl.Unit \div rl.Value, burst |-> 1]

\* NewRouter: err, or the maps of the Router
NewRouter(c) ==
    LET ps      == c.Providers
        idx     == 1..Len(ps)
        limited == {i \in idx : ~ParseRateLimit(ps[i].RateLimit).none}
        listed  == UNION {ps[i].Models : i \in idx}
        lastOf(name) == CHOOSE i \in idx : ps[i].Name = name /\
                            \A j \in idx : ps[j].Name = name => j <= i
    IN  [err |-> \E i \in idx : ~ResolveAPITokenOK(ps[i]) \/ ParseRateLimit(ps[i].RateLimit).err,
         providers    |-> {ps[i].Name : i \in idx},
         providerURLs |-> [n \in {ps[i].Name : i \in idx} |-> ps[lastOf(n)].BaseURL],
         rateLimiters |-> [n \in {ps[i].Name : i \in limited} |->
                              NewLimiter(ParseRateLimit(
                                  ps[CHOOSE i \in limited : ps[i].Name = n /\
                                        \A j \in limited : ps[j].Name = n => j <= i].RateLimit))],
         aliases      |-> c.Aliases,
         modelMapping |-> [m \in listed |->
                              ps[CHOOSE i \in idx : m \in ps[i].Models /\
                                    \A j \in idx : m \in ps[j].Models => j <= i].Name],
         defaultProvider |-> c.DefaultProvider]

\* resolveAlias expanding its result once more
resolveAliasTwice(r, model) ==
    LET once == IF model \in DOMAIN r.aliases THEN r.aliases[model] ELSE model
    IN  IF once \in DOMAIN r.aliases THEN r.aliases[once] ELSE once

\* Router.resolveAlias
resolveAlias(r, model) ==
    IF model \in DOMAIN r.aliases THEN r.aliases[model] ELSE model

\* Router.resolveProvider
resolveProvider(r, model) ==
    IF model \in DOMAIN r.modelMapping THEN r.modelMapping[model] ELSE r.defaultProvider

\* Router.ResolveModel
ResolveModel(r, model) ==
    [fullName |-> resolveAlias(r, model),
     provider |-> resolveProvider(r, resolveAlias(r, model))]

(***************************************************************************)
(* SpecResolve: a configuration is loaded, validated, a router is built    *)
(* from it and names are resolved (tuna config resolve).                   *)
(***************************************************************************)
MaxProviders == 2

RouteNames == {"fast", "gpt-4", "claude-3"}
AliasKeys  == {"fast", "gpt-4"}

Text2rps == <<"2", "r", "p", "s">>
Text1rps == <<"1", "r", "p", "s">>
Text0rps == <<"0", "r", "p", "s">>

ProviderSamples ==
    {[Name |-> "openai", BaseURL |-> "https://openai/v1", Token |-> "direct",
      RateLimit |-> Text2rps, Models |-> {"gpt-4"}],
     [Name |-> "openai", BaseURL |-> "https://openai/v1", Token |-> "env",
      RateLimit |-> <<>>, Models |-> {"gpt-4", "claude-3"}],
     [Name |-> "anthropic", BaseURL |-> "https://anthropic/v1", Token |-> "env",
      RateLimit |-> Text1rps, Models |-> {"claude-3"}],
     [Name |-> "anthropic", BaseURL |-> "https://anthropic/v1", Token |-> "direct",
      RateLimit |-> <<>>, Models |-> {}],
     [Name |-> "anthropic", BaseURL |-> "https://anthropic/v1", Token |-> "envUnset",
      RateLimit |-> <<>>, Models |-> {"claude-3"}],
     [Name |-> "local", BaseURL |-> "", Token |-> "none",
      RateLimit |-> Text0rps, Models |-> {"gpt-4"}]}

AliasTables == UNION {[D -> RouteNames] : D \in SUBSET AliasKeys}

ConfigSamples ==
    [DefaultProvider : {"", "openai", "anthropic"},
     Aliases : AliasTables,
     Providers : SeqsUpTo(ProviderSamples, MaxProviders)]

InitResolve ==
    /\ cfg \in ConfigSamples
    /\ cfgStatus = "loaded" /\ router = <<>> /\ resolved = {}
    /\ now = 0 /\ limiters = <<>> /\ calls = <<>>
    /\ FormatIdle /\ FileIdle /\ ExecIdle /\ RunIdle /\ CallIdle /\ AuxIdle

\* config.LoadFromFile's Validate, then llm.NewRouter
BuildRouter ==
    /\ cfgStatus = "loaded"
    /\ IF Validate(cfg) /\ ~NewRouter(cfg).err
       THEN cfgStatus' = "accepted" /\ router' = <<NewRouter(cfg)>>
       ELSE cfgStatus' = "rejected" /\ router' = <<>>
    /\ UNCHANGED <<cfg, resolved, now, limiters, calls,
                   fmtVars, fileVars, execVars, runVars, callVars, auxVars>>

\* router.ResolveModel(model), as tuna config resolve <model> asks it
Resolve(model) ==
    /\ cfgStatus = "accepted"
    /\ \A x \in resolved : x.input # model
    /\ resolved' = resolved \cup
           {[input |-> model, fullName |-> ResolveModel(router[1], model).fullName,
             provider |-> ResolveModel(router[1], model).provider]}
    /\ UNCHANGED <<cfg, cfgStatus, router, now, limiters, calls,
                   fmtVars, fileVars, execVars, runVars, callVars, auxVars>>

NextResolve ==
    \/ BuildRouter
    \/ \E m \in RouteNames : Resolve(m)

SpecResolve == InitResolve /\ [][NextResolve]_vars

\* C3: for every alias entry a -> m of an accepted configuration,
\* ResolveModel(a) and ResolveModel(m) return the same provider name.
C3_AliasTransparentToRouting ==
    \A x \in resolved, y \in resolved :
        (x.input \in DOMAIN cfg.Aliases /\ y.input = cfg.Aliases[x.input])
            => x.provider = y.provider

(***************************************************************************)
(* SpecRouter: Router.Chat calls by several callers against one router.    *)
(* The rate.Limiter (golang.org/x/time/rate) keeps its tokens as a credit  *)
(* of time: one token is worth one interval.  A call is one step up to the *)
(* point where limiter.Wait sleeps, and one step from there on.            *)
(***************************************************************************)
MaxCalls == 3
MaxTicks == 4
\* the clock advances in steps of 250ms
TimeStep == 250

Callers == 1..MaxCalls

RouterConfigSamples ==
    {c \in ConfigSamples :
        /\ Validate(c) /\ ~NewRouter(c).err
        /\ Len(c.Providers) = 2
        /\ c.Providers[1].Name = "openai" /\ c.Providers[2].Name = "anthropic"
        /\ c.Providers[2].Models # {}
        /\ c.DefaultProvider = "openai"
        /\ c.Aliases \in {[x \in {"fast"} |-> "gpt-4"], [x \in {"fast"} |-> "claude-3"]}}

NotYet == -1

IdleCall ==
    [state |-> "idle", model |-> "", provider |-> "", ctx |-> "live",
     cancelled |-> "never", timeToAct |-> 0, admittedAt |-> NotYet,
     sent |-> "", err |-> ""]

\* a new rate.Limiter has a full bucket
FreshLimiter(l) == [tokens |-> l.burst * l.interval, last |-> 0, lastEvent |-> 0]

InitRouter ==
    /\ cfg \in RouterConfigSamples
    /\ cfgStatus = "accepted"
    /\ router = <<NewRouter(cfg)>>
    /\ resolved = {}
    /\ now = 0
    /\ limiters = [p \in DOMAIN NewRouter(cfg).rateLimiters |->
                      FreshLimiter(NewRouter(cfg).rateLimiters[p])]
    /\ calls = [c \in Callers |-> IdleCall]
    /\ FormatIdle /\ FileIdle /\ ExecIdle /\ RunIdle /\ CallIdle /\ AuxIdle

\* Limiter.advance: the tokens at time t
LimAdvance(l, st, t) ==
    LET last == IF t < st.last THEN t ELSE st.last
        sum  == st.tokens + (t - last)
    IN  IF sum > l.burst * l.interval THEN l.burst * l.interval ELSE sum

\* Limiter.reserveN(t, 1, InfDuration): the limiter state after it and the
\* time the reservation may act
LimReserve(l, st, t) ==
    IF l.interval = 0 THEN [st |-> st, timeToAct |-> t]
    ELSE LET tokens == LimAdvance(l, st, t) - l.interval
             wait   == IF tokens < 0 THEN -tokens ELSE 0
         IN  [st |-> [tokens |-> tokens, last |-> t, lastEvent |-> t + wait],
              timeToAct |-> t + wait]

\* Reservation.CancelAt(t) of a reservation of one token
LimCancel(l, st, timeToAct, t) ==
    LET restore == l.interval - (st.lastEvent - timeToAct)
        tokens  == LimAdvance(l, st, t) + restore
        capped  == IF tokens > l.burst * l.interval THEN l.burst * l.interval ELSE tokens
    IN  IF l.interval = 0 \/ timeToAct < t \/ restore <= 0 THEN st
        ELSE [tokens |-> capped, last |-> t,
              lastEvent |-> IF timeToAct = st.lastEvent /\ timeToAct - l.interval >= t
                            THEN timeToAct - l.interval ELSE st.lastEvent]

RouterFrame == UNCHANGED <<cfg, cfgStatus, router, resolved, fmtVars, fileVars, execVars, runVars, callVars, auxVars>>

\* Router.Chat past the gate: the request gets the resolved model name and
\* goes to the provider's client, whose answer or error Chat returns
ThroughTransport(call, fullName, ok) ==
    [call EXCEPT !.sent = fullName,
                 !.state = IF ok THEN "done" ELSE "failed",
                 !.err = IF ok THEN "" ELSE "transportError"]

\* Router.Chat with limiter.Wait(context.Background()) in place of
\* limiter.Wait(ctx)
ChatIgnoringCtx(c, model, ok) ==
    LET r        == router[1]
        fullName == resolveAlias(r, model)
        provider == resolveProvider(r, fullName)
        call     == [calls[c] EXCEPT !.model = model, !.provider = provider]
    IN  /\ calls[c].state = "idle"
        /\ \A d \in Callers : d < c => calls[d].state # "idle"
        /\ IF provider \notin r.providers
           THEN /\ calls' = [calls EXCEPT ![c] = [call EXCEPT !.state = "failed",
                                                              !.err = "providerNotFound"]]
                /\ UNCHANGED limiters
           ELSE IF provider \notin DOMAIN r.rateLimiters
           THEN /\ calls' = [calls EXCEPT ![c] = ThroughTransport(call, fullName, ok)]
                /\ UNCHANGED limiters
           ELSE LET res == LimReserve(r.rateLimiters[provider], limiters[provider], now)
                IN  /\ limiters' = [limiters EXCEPT ![provider] = res.st]
                    /\ IF res.timeToAct = now
                       THEN calls' = [calls EXCEPT ![c] =
                                ThroughTransport([call EXCEPT !.admittedAt = now],
                                                 fullName, ok)]
                       ELSE calls' = [calls EXCEPT ![c] =
                                [call EXCEPT !.state = "waiting",
                                             !.timeToAct = res.timeToAct]]
        /\ UNCHANGED now
        /\ RouterFrame

\* Router.Chat: resolve the alias and the provider, look the client up,
\* enter the provider's limiter if it has one.  Wait returns the context's
\* error at once if the context is done; it returns nil at once if a token
\* is there, and the call goes on to the transport; otherwise it sleeps
\* until its reservation's time.  Callers are interchangeable, so they act
\* in the order of their numbers.
Chat(c, model, ok) ==
    LET r        == router[1]
        fullName == resolveAlias(r, model)
        provider == resolveProvider(r, fullName)
        call     == [calls[c] EXCEPT !.model = model, !.provider = provider]
    IN  /\ calls[c].state = "idle"
        /\ \A d \in Callers : d < c => calls[d].state # "idle"
        /\ IF provider \notin r.providers
           THEN /\ calls' = [calls EXCEPT ![c] = [call EXCEPT !.state = "failed",
                                                              !.err = "providerNotFound"]]
                /\ UNCHANGED limiters
           ELSE IF provider \notin DOMAIN r.rateLimiters
           THEN /\ calls' = [calls EXCEPT ![c] = ThroughTransport(call, fullName, ok)]
                /\ UNCHANGED limiters
           ELSE IF calls[c].ctx = "cancelled"
           THEN /\ calls' = [calls EXCEPT ![c] = [call EXCEPT !.state = "failed",
                                                              !.err = "rateLimitCancelled"]]
                /\ UNCHANGED limiters
           ELSE LET res == LimReserve(r.rateLimiters[provider], limiters[provider], now)
                IN  /\ limiters' = [limiters EXCEPT ![provider] = res.st]
                    /\ IF res.timeToAct = now
                       THEN calls' = [calls EXCEPT ![c] =
                                ThroughTransport([call EXCEPT !.admittedAt = now],
                                                 fullName, ok)]
                       ELSE calls' = [calls EXCEPT ![c] =
                                [call EXCEPT !.state = "waiting",
                                             !.timeToAct = res.timeToAct]]
        /\ UNCHANGED now
        /\ RouterFrame

\* limiter.Wait returns nil when the timer of its reservation fires, and
\* the call goes on to the transport
TimerFires(c, ok) ==
    /\ calls[c].state = "waiting"
    /\ calls[c].timeToAct = now
    /\ calls' = [calls EXCEPT ![c] =
           ThroughTransport([@ EXCEPT !.admittedAt = now],
                            resolveAlias(router[1], calls[c].model), ok)]
    /\ UNCHANGED <<now, limiters>>
    /\ RouterFrame

\* The caller cancels the context of its call, before the call or while it
\* waits at the gate (a cancellation after the gate is one of the errors of
\* the transport).  A Wait that is sleeping wakes on ctx.Done(), cancels its
\* reservation and returns the error, which Chat wraps as "rate limit wait
\* cancelled".
CancelCtx(c) ==
    /\ calls[c].ctx = "live"
    /\ calls[c].state \in {"idle", "waiting"}
    /\ \A d \in Callers : d < c => calls[d].state # "idle"
    /\ IF calls[c].state = "waiting"
       THEN /\ calls' = [calls EXCEPT ![c] =
                   [@ EXCEPT !.ctx = "cancelled", !.cancelled = "waiting",
                             !.state = "failed", !.err = "rateLimitCancelled"]]
            /\ limiters' = [limiters EXCEPT ![calls[c].provider] =
                   LimCancel(router[1].rateLimiters[calls[c].provider], @,
                             calls[c].timeToAct, now)]
       ELSE /\ calls' = [calls EXCEPT ![c] =
                   [@ EXCEPT !.ctx = "cancelled", !.cancelled = "beforeChat"]]
            /\ UNCHANGED limiters
    /\ UNCHANGED now
    /\ RouterFrame

\* Time passes, by a step or up to the next timer if that is sooner; a
\* timer that is due fires before time passes it
Tick ==
    LET due  == {calls[c].timeToAct : c \in {d \in Callers : calls[d].state = "waiting"}}
        soon == {t \in due : t < now + TimeStep}
    IN  /\ now < MaxTicks * TimeStep
        /\ \A t \in due : t > now
        /\ now' = IF soon = {} THEN now + TimeStep
                  ELSE CHOOSE t \in soon : \A u \in soon : t <= u
        /\ UNCHANGED <<limiters, calls>>
        /\ RouterFrame

NextRouter ==
    \/ \E c \in Callers, m \in RouteNames, ok \in BOOLEAN : Chat(c, m, ok)
    \/ \E c \in Callers, ok \in BOOLEAN : TimerFires(c, ok)
    \/ \E c \in Callers : CancelCtx(c)
    \/ Tick

SpecRouter == InitRouter /\ [][NextRouter]_vars

(***************************************************************************)
(* Properties of the rate gate                                             *)
(***************************************************************************)
\* the rate limit the configuration gives the provider of that name
ConfiguredLimit(name) ==
    ParseRateLimit(cfg.Providers[CHOOSE i \in 1..Len(cfg.Providers) :
                                     cfg.Providers[i].Name = name].RateLimit)

Admitted(c) == calls[c].admittedAt # NotYet

Gap(c, d) ==
    IF calls[c].admittedAt >= calls[d].admittedAt
    THEN calls[c].admittedAt - calls[d].admittedAt
    ELSE calls[d].admittedAt - calls[c].admittedAt

\* C2: any two calls admitted past the rate gate of a provider configured
\* with <value><unit> are at least unit/value apart, whatever names they
\* were made under and whether they overlapped or not.
C2_AdmissionsSpaced ==
    \A c, d \in Callers :
        (/\ c # d /\ Admitted(c) /\ Admitted(d)
         /\ calls[c].provider = calls[d].provider
         /\ ~ConfiguredLimit(calls[c].provider).none)
        => Gap(c, d) >= ConfiguredLimit(calls[c].provider).Unit
                            \div ConfiguredLimit(calls[c].provider).Value

\* two calls under different names were admitted by one limited provider,
\* the later one after waiting, exactly one interval apart
C2_Witness ==
    \E c, d \in Callers :
        /\ Admitted(c) /\ Admitted(d)
        /\ calls[c].provider = calls[d].provider
        /\ calls[c].model # calls[d].model
        /\ ~ConfiguredLimit(calls[c].provider).none
        /\ calls[d].timeToAct > calls[c].admittedAt
        /\ calls[d].admittedAt - calls[c].admittedAt =
               ConfiguredLimit(calls[c].provider).Unit
                   \div ConfiguredLimit(calls[c].provider).Value

\* C8: a call whose context was cancelled before it reached the rate gate
\* of a rate-limited provider, or while it waited there, has returned the
\* rate-limit cancellation error, is not waiting, and its request never
\* went to the provider's transport.
C8_CancelledAtGateNeverSent ==
    \A c \in Callers :
        (/\ calls[c].cancelled \in {"beforeChat", "waiting"}
         /\ calls[c].state # "idle"
         /\ ~ConfiguredLimit(calls[c].provider).none)
        => /\ calls[c].state = "failed"
           /\ calls[c].err = "rateLimitCancelled"
           /\ calls[c].sent = ""
           /\ ~Admitted(c)

\* one call was cancelled before it began and another while it waited, both
\* at a rate-limited provider, and both have returned
C8_Witness ==
    \E c, d \in Callers :
        /\ calls[c].cancelled = "beforeChat" /\ calls[c].state = "failed"
        /\ calls[d].cancelled = "waiting" /\ calls[d].state = "failed"
        /\ ~ConfiguredLimit(calls[c].provider).none
        /\ ~ConfiguredLimit(calls[d].provider).none

(***************************************************************************)
(* SpecRouterAliased: the same calls against routers built from accepted   *)
(* configurations whose alias table has a target that is an alias key.     *)
(***************************************************************************)
RouterAliasedConfigSamples ==
    {c \in ConfigSamples :
        /\ Validate(c) /\ ~NewRouter(c).err
        /\ Len(c.Providers) = 2
        /\ c.Providers[1].Name = "openai" /\ c.Providers[2].Name = "anthropic"
        /\ c.Providers[1].RateLimit # <<>>
        /\ c.Providers[2].Models # {}
        /\ c.DefaultProvider = "openai"
        /\ DOMAIN c.Aliases = {"fast"}
        /\ c.Aliases["fast"] \in DOMAIN c.Aliases}

InitRouterAliased ==
    /\ cfg \in RouterAliasedConfigSamples
    /\ cfgStatus = "accepted"
    /\ router = <<NewRouter(cfg)>>
    /\ resolved = {}
    /\ now = 0
    /\ limiters = [p \in DOMAIN NewRouter(cfg).rateLimiters |->
                      FreshLimiter(NewRouter(cfg).rateLimiters[p])]
    /\ calls = [c \in Callers |-> IdleCall]
    /\ FormatIdle /\ FileIdle /\ ExecIdle /\ RunIdle /\ CallIdle /\ AuxIdle

SpecRouterAliased == InitRouterAliased /\ [][NextRouter]_vars

\* C11: the transport of a call is invoked only after the rate gate of the
\* resolved provider admitted the call, and the request it receives names
\* the alias-expanded model, never the alias the caller supplied.
C11_TransportAfterGateWithFullName ==
    \A c \in Callers :
        calls[c].sent # "" =>
            /\ ~ConfiguredLimit(calls[c].provider).none => Admitted(c)
            /\ calls[c].sent = (IF calls[c].model \in DOMAIN cfg.Aliases
                                THEN cfg.Aliases[calls[c].model] ELSE calls[c].model)
            /\ calls[c].model \in DOMAIN cfg.Aliases => calls[c].sent # calls[c].model

(***************************************************************************)
(* Properties of name resolution                                           *)
(***************************************************************************)
\* the names of the providers of the configuration that list the model
ListedBy(name) ==
    {cfg.Providers[i].Name : i \in {j \in 1..Len(cfg.Providers) :
                                        name \in cfg.Providers[j].Models}}

\* C12: ResolveModel(x) returns as full name aliases[x] if x is an alias
\* key and x otherwise, expanded once only, and as provider one that lists
\* the full name if any does and the default provider otherwise.
C12_ResolveModelSingleHop ==
    \A x \in resolved :
        /\ x.fullName = (IF x.input \in DOMAIN cfg.Aliases
                         THEN cfg.Aliases[x.input] ELSE x.input)
        /\ IF ListedBy(x.fullName) # {}
           THEN x.provider \in ListedBy(x.fullName)
           ELSE x.provider = cfg.DefaultProvider

\* every name has been resolved: an alias whose target is an alias key came
\* back expanded once, and a name no provider lists went to the default
C12_Witness ==
    /\ {x.input : x \in resolved} = RouteNames
    /\ \E x \in resolved :
          /\ x.input \in DOMAIN cfg.Aliases
          /\ x.fullName \in DOMAIN cfg.Aliases
          /\ cfg.Aliases[x.fullName] # x.fullName
    /\ \E x \in resolved :
          ListedBy(x.fullName) = {} /\ x.provider = cfg.DefaultProvider

ProviderNames == {cfg.Providers[i].Name : i \in 1..Len(cfg.Providers)}

PosOf(k) == <<((k - 1) \div Len(queries)) + 1, ((k - 1) % Len(queries)) + 1>>

IsDone(e) == e.Type = "done"
IsError(e) == e.Type = "error"

\* C14: the events come in pairs, task by task: a start event, then one
\* terminal event, both with the task's model and query id; the terminal
\* event is done for a task that gave a result and error for one that gave
\* an error, so the done events match Results and the error events Errors.
C14_OneStartOneTerminalPerTask ==
    /\ \A i \in 1..Len(events) :
          LET pos == PosOf((i + 1) \div 2)
          IN  /\ events[i].Model = models[pos[1]]
              /\ events[i].QueryID = queries[pos[2]]
              /\ (i % 2 = 1) => events[i].Type = "start"
              /\ (i % 2 = 0) => events[i].Type \in {"done", "error"}
    /\ (Returned /\ summary # <<>>) =>
          LET dones  == SelectSeq(events, IsDone)
              errors == SelectSeq(events, IsError)
          IN  /\ Len(events) = 2 * Len(models) * Len(queries)
              /\ Len(dones) = Len(summary[1].Results)
              /\ Len(errors) = Len(summary[1].Errors)
              /\ \A j \in 1..Len(dones) :
                    /\ dones[j].QueryID = summary[1].Results[j].QueryID
                    /\ dones[j].Prompt = summary[1].Results[j].PromptTokens
                    /\ dones[j].Output = summary[1].Results[j].OutputTokens
              /\ \A j \in 1..Len(errors) :
                    /\ errors[j].Model = summary[1].Errors[j].Model
                    /\ errors[j].QueryID = summary[1].Errors[j].QueryID

\* a run of four tasks returned: the first failed, the second succeeded
C14_Witness ==
    /\ pc = "returned" /\ summary # <<>>
    /\ Len(events) = 8
    /\ events[1].Type = "start" /\ events[2].Type = "error"
    /\ events[3].Type = "start" /\ events[4].Type = "done"
    /\ events[3].QueryID # events[1].QueryID
    /\ events[5].Model # events[1].Model

TaskSucceeded(k) == events[2 * k].Type = "done"
TaskFailed(k) == events[2 * k].Type = "error"

\* the tasks that have reported, by their number in the order of start
Reported == [k \in 1..(Len(events) \div 2) |-> k]

\* C15: the tasks are started models outer, queries inner; Results and
\* Errors list their tasks in that relative order; the dry-run preview and
\* the task list of the TUI enumerate the tasks in that order too.
C15_ModelsOuterQueriesInner ==
    /\ \A k \in 1..Len(attempted) : attempted[k] = PosOf(k)
    /\ summary # <<>> =>
          LET ok  == SelectSeq(Reported, TaskSucceeded)
              bad == SelectSeq(Reported, TaskFailed)
          IN  /\ Len(ok) = Len(summary[1].Results)
              /\ Len(bad) = Len(summary[1].Errors)
              /\ \A j \in 1..Len(ok) :
                    summary[1].Results[j].QueryID = queries[PosOf(ok[j])[2]]
              /\ \A j \in 1..Len(bad) :
                    /\ summary[1].Errors[j].Model = models[PosOf(bad[j])[1]]
                    /\ summary[1].Errors[j].QueryID = queries[PosOf(bad[j])[2]]
    /\ pc = "previewed" =>
          /\ Len(preview) = Len(models) * Len(queries)
          /\ \A k \in 1..Len(preview) :
                /\ preview[k].Model = models[PosOf(k)[1]]
                /\ preview[k].QueryID = queries[PosOf(k)[2]]
    /\ Len(tui.tasks) = Len(models) * Len(queries)
    /\ \A k \in 1..Len(tui.tasks) :
          /\ tui.tasks[k].Model = models[PosOf(k)[1]]
          /\ tui.tasks[k].QueryID = queries[PosOf(k)[2]]

\* a run over two models and two queries returned with the first and the
\* last task failed; the TUI lists the four tasks
C15_Witness ==
    /\ pc = "returned" /\ summary # <<>>
    /\ Len(models) = 2 /\ Len(queries) = 2
    /\ models[1] # models[2] /\ queries[1] # queries[2]
    /\ attempted = <<<<1, 1>>, <<1, 2>>, <<2, 1>>, <<2, 2>>>>
    /\ Len(summary[1].Errors) = 2 /\ Len(summary[1].Results) = 2
    /\ summary[1].Errors[1].Model = models[1]
    /\ summary[1].Errors[2].Model = models[2]
    /\ summary[1].Results[1].QueryID = queries[2]
    /\ summary[1].Results[2].QueryID = queries[1]
    /\ tui.tasks[2].QueryID = queries[2] /\ tui.tasks[3].Model = models[2]

(***************************************************************************)
(* SpecRun: one run of tuna exec with executeOne taken step by step: the   *)
(* query file is read, llmClient.Chat is entered, waits at the rate gate,  *)
(* is in the transport, the response file is written.  The context may be  *)
(* cancelled and the process may die at any step.                          *)
(***************************************************************************)
MaxRunModels == 2
MaxRunQueries == 1

RunModels  == SeqsUpTo(ModelNames, MaxRunModels) \ {<<>>}
RunQueries == SeqsUpTo(QueryNames, MaxRunQueries) \ {<<>>}

\* the flags of tuna exec: --parallel and --continue
OptionSamples ==
    {[Parallel |-> 1, Continue |-> FALSE, DryRun |-> FALSE],
     [Parallel |-> 1, Continue |-> TRUE, DryRun |-> FALSE],
     [Parallel |-> 2, Continue |-> FALSE, DryRun |-> FALSE]}

\* ResponseWriter.Write's path is made of the model and the query id
Paths == ModelNames \X QueryNames

CurrentPath == <<models[mi], queries[qi]>>

\* the number, in the order of start, of the task at a position
TaskNumber(pos) == (pos[1] - 1) * Len(queries) + pos[2]

\* the response files an earlier run left: those of its first n tasks
DiskAfter(ms, qs, n) ==
    [p \in Paths |->
        IF \E k \in 1..n : p = <<ms[((k - 1) \div Len(qs)) + 1], qs[((k - 1) % Len(qs)) + 1]>>
        THEN "prior" ELSE "absent"]

ErrorOutcome(kind) == [kind |-> kind, model |-> "", prompt |-> 0, output |-> 0]

\* how many tasks an earlier run of the same plan completed: none or the
\* first one
PriorSamples(o) == IF o.Parallel > 1 THEN {0} ELSE {0, 1}

\* what client.Chat returns: a response with its token counts, or an error
ChatReturns ==
    {[kind |-> "ok", model |-> "resolved", prompt |-> 3, output |-> 7],
     ErrorOutcome("chatError")}

InitRun ==
    /\ models \in RunModels
    /\ queries \in RunQueries
    /\ options \in OptionSamples
    /\ disk \in {DiskAfter(models, queries, n) : n \in PriorSamples(options)}
    /\ ctx = "live" /\ chat = NoChat /\ preview = <<>>
    /\ pc = "Execute" /\ mi = 0 /\ qi = 0
    /\ outcome = NoOutcome /\ summary = <<>> /\ retErr = FALSE
    /\ events = <<>> /\ attempted = <<>>
    /\ ioCount = [reads |-> 0, chats |-> 0, writes |-> 0]
    /\ msgs = <<>>
    /\ tui = [tasks |-> NewTasks(models, queries), current |-> 0,
              prompt |-> 0, output |-> 0, done |-> FALSE]
    /\ FormatIdle
    /\ FileIdle
    /\ RouterIdle
    /\ CallIdle
    /\ AuxIdle

RunFrame == UNCHANGED <<models, queries, mi, qi, summary, retErr, events, msgs, tui,
                        options, preview, fmtVars, fileVars, routerVars, callVars, auxVars>>

\* executeOne: os.ReadFile of the query file
ReadQuery(ok) ==
    /\ pc = "executeOne"
    /\ attempted' = Append(attempted, <<mi, qi>>)
    /\ ioCount' = [ioCount EXCEPT !.reads = @ + 1]
    /\ IF ok
       THEN /\ pc' = "chat"
            /\ chat' = [chat EXCEPT !.phase = "entered", !.calls = 0]
            /\ UNCHANGED outcome
       ELSE /\ pc' = "report"
            /\ outcome' = ErrorOutcome("readError")
            /\ UNCHANGED chat
    /\ UNCHANGED <<ctx, disk>>
    /\ RunFrame

\* executeOne calls llmClient.Chat, once: Router.Chat up to its rate gate.
\* A limited provider's Wait fails at once on a cancelled context, lets the
\* call through, or makes it wait.
ChatEnter(limited, wait) ==
    /\ pc = "chat" /\ chat.phase = "entered"
    /\ ioCount' = [ioCount EXCEPT !.chats = @ + 1]
    /\ IF limited /\ ctx = "cancelled"
       THEN /\ chat' = [chat EXCEPT !.phase = "none", !.calls = @ + 1]
            /\ outcome' = ErrorOutcome("chatError")
            /\ pc' = "report"
       ELSE /\ chat' = [chat EXCEPT !.calls = @ + 1,
                           !.phase = IF limited /\ wait THEN "waiting" ELSE "inTransport"]
            /\ UNCHANGED <<outcome, pc>>
    /\ UNCHANGED <<attempted, ctx, disk>>
    /\ RunFrame

\* limiter.Wait returns nil
GateOpens ==
    /\ pc = "chat" /\ chat.phase = "waiting"
    /\ chat' = [chat EXCEPT !.phase = "inTransport"]
    /\ UNCHANGED <<attempted, ioCount, outcome, pc, ctx, disk>>
    /\ RunFrame

\* client.Chat called with context.Background(): it may answer whatever
\* became of the context of Execute
TransportReturnsIgnoringCtx(o) ==
    /\ pc = "chat" /\ chat.phase = "inTransport"
    /\ chat' = [chat EXCEPT !.phase = "none"]
    /\ outcome' = o
    /\ pc' = IF o.kind = "ok" THEN "write" ELSE "report"
    /\ UNCHANGED <<attempted, ioCount, ctx, disk>>
    /\ RunFrame

\* client.Chat returns: the response, or an error; the HTTP request carries
\* the context, so once that is cancelled the call returns an error
TransportReturns(o) ==
    /\ pc = "chat" /\ chat.phase = "inTransport"
    /\ ctx = "cancelled" => o.kind = "chatError"
    /\ chat' = [chat EXCEPT !.phase = "none"]
    /\ outcome' = o
    /\ pc' = IF o.kind = "ok" THEN "write" ELSE "report"
    /\ UNCHANGED <<attempted, ioCount, ctx, disk>>
    /\ RunFrame

\* executeOne: writer.Write replaces the response file, or fails before
\* touching it
WriteResponse(ok) ==
    /\ pc = "write"
    /\ ioCount' = [ioCount EXCEPT !.writes = @ + 1]
    /\ IF ok
       THEN disk' = [disk EXCEPT ![CurrentPath] = "written"] /\ UNCHANGED outcome
       ELSE outcome' = ErrorOutcome("writeError") /\ UNCHANGED disk
    /\ pc' = "report"
    /\ UNCHANGED <<attempted, ctx, chat>>
    /\ RunFrame

\* The context of Execute is cancelled while Execute runs.  A Wait that is
\* sleeping wakes with the context's error, which Chat and executeOne
\* return; a call in the transport is marked as hit.
Cancel ==
    /\ ctx = "live"
    /\ pc \in {"notifyStart", "executeOne", "chat", "write", "report"}
    /\ ctx' = "cancelled"
    /\ IF pc = "chat" /\ chat.phase = "waiting"
       THEN /\ chat' = [chat EXCEPT !.phase = "none", !.hit = <<mi, qi>>]
            /\ outcome' = ErrorOutcome("chatError")
            /\ pc' = "report"
       ELSE /\ chat' = IF pc = "chat" /\ chat.phase = "inTransport"
                       THEN [chat EXCEPT !.hit = <<mi, qi>>] ELSE chat
            /\ UNCHANGED <<outcome, pc>>
    /\ UNCHANGED <<attempted, ioCount, disk>>
    /\ RunFrame

\* The process dies.  os.WriteFile opens the file with O_TRUNC and then
\* writes: a death inside it leaves the old file, a truncated or partly
\* written one, or the new one.
Crash(left) ==
    /\ pc \in {"notifyStart", "executeOne", "chat", "write", "report"}
    /\ pc' = "crashed"
    /\ IF pc = "write"
       THEN disk' = [disk EXCEPT ![CurrentPath] =
                        CASE left = "old" -> @
                          [] left = "partial" -> "partial"
                          [] left = "new" -> "written"]
       ELSE left = "old" /\ UNCHANGED disk
    /\ msgs' = <<>>
    /\ UNCHANGED <<models, queries, mi, qi, outcome, summary, retErr, events,
                   attempted, ioCount, tui, options, preview, ctx, chat,
                   fmtVars, fileVars, routerVars, callVars, auxVars>>

RunSteps ==
    \/ ExecuteBegin
    \/ TaskStart
    \/ \E ok \in BOOLEAN : ReadQuery(ok)
    \/ \E limited, wait \in BOOLEAN : ChatEnter(limited, wait)
    \/ GateOpens
    \/ \E ok \in BOOLEAN : WriteResponse(ok)
    \/ TaskReport
    \/ ExecutionDone
    \/ TuiUpdate

NextRun ==
    \/ RunSteps
    \/ \E o \in ChatReturns : TransportReturns(o)
    \/ Cancel
    \/ \E left \in {"old", "partial", "new"} : Crash(left)

SpecRun == InitRun /\ [][NextRun]_vars

\* A run that is not killed.  Execute's goroutine and the event loop keep
\* taking their steps; a provider call is only known to return once its
\* context is cancelled.
NextRunAlive ==
    \/ RunSteps
    \/ \E o \in ChatReturns : TransportReturns(o)
    \/ Cancel

SpecRunAlive ==
    /\ InitRun
    /\ [][NextRunAlive]_vars
    /\ WF_vars(RunSteps)
    /\ WF_vars(ctx = "cancelled" /\ \E o \in ChatReturns : TransportReturns(o))

(***************************************************************************)
(* Properties of a run taken step by step                                  *)
(***************************************************************************)

\* C16: with the Continue option set, a task whose response file exists
\* from an earlier run is skipped: the engine makes no provider call for it
\* and does not write its file.
C16_ContinueSkipsExisting ==
    (options.Continue /\ pc \in {"chat", "write"}) => disk[CurrentPath] # "prior"

\* C17: with Parallel = n > 1 tasks on different providers proceed in
\* parallel: the start of the second of two tasks on different models does
\* not wait for the provider call of the first to return, so in a run that
\* is not killed the second task is eventually started.
C17_ParallelTasksProceed ==
    (options.Parallel > 1 /\ Len(models) = 2 /\ models[1] # models[2])
        => <>(/\ Len(models) = 2
              /\ \E k \in 1..Len(events) : events[k].Type = "start" /\ events[k].Model = models[2])

\* C18: a task whose provider call fails with an API error (the context
\* not cancelled) is retried by the engine before it is recorded as failed:
\* when its failure is reported, more than one call was made for it.
C18_ApiErrorRetried ==
    (pc = "report" /\ outcome.kind = "chatError" /\ ctx = "live") => chat.calls >= 2

\* C19: a crash or cancellation at any point leaves every response file
\* that was completely written before that point complete and parseable.
C19_CompleteFilesStayComplete ==
    [][\A p \in Paths : disk[p] \in {"prior", "written"} => disk'[p] \in {"prior", "written"}]_vars

\* the task whose wait or provider call the cancellation hit has its error
\* event, and with it its entry in Errors
HitRecorded ==
    chat.hit # <<>> =>
        /\ Len(events) >= 2 * TaskNumber(chat.hit)
        /\ events[2 * TaskNumber(chat.hit)].Type = "error"
        /\ \E j \in 1..Len(summary[1].Errors) :
              /\ summary[1].Errors[j].Model = models[chat.hit[1]]
              /\ summary[1].Errors[j].QueryID = queries[chat.hit[2]]
              /\ summary[1].Errors[j].Kind = "chatError"

\* C20: once the context is cancelled while Execute runs, the wait or the
\* provider call in flight is unblocked and its task is recorded as an
\* error, and Execute terminates and returns its summary without an error
\* of its own.
C20_CancelledRunReturnsSummary ==
    [](ctx = "cancelled" => <>(Returned /\ ~retErr /\ summary # <<>> /\ HitRecorded))

C20_Witness ==
    /\ ctx = "cancelled" /\ chat.hit = <<1, 1>> /\ Len(models) = 2
    /\ Returned /\ ~retErr /\ summary # <<>>
    /\ Len(summary[1].Errors) >= 1
    /\ summary[1].Errors[1].Kind = "chatError"
    /\ Len(attempted) = 2

(***************************************************************************)
(* SpecFormatEmpty: response.Format called with a nil pointer or with a    *)
(* metadata that has no provider, model or duration.                       *)
(***************************************************************************)
\* Format(meta *Metadata, content): the nil test comes before IsEmpty
FormatPtr(p, content) ==
    IF p = <<>> THEN TrimLeftNL(content) ELSE Format(p[1], content)

MetadataPointers ==
    {<<>>} \cup {<<m>> : m \in {x \in MetadataSamples :
                                  x.Provider = "" /\ x.Model = "" /\ x.Duration = 0}}

InitFormatEmpty ==
    /\ arg \in [meta : MetadataPointers, content : Contents]
    /\ ret = <<>>
    /\ FormatIdle /\ FileIdle /\ ExecIdle /\ RouterIdle /\ RunIdle /\ AuxIdle

CallFormat ==
    /\ ret = <<>>
    /\ ret' = <<FormatPtr(arg.meta, arg.content)>>
    /\ UNCHANGED <<arg, fmtVars, fileVars, execVars, routerVars, runVars, auxVars>>

NextFormatEmpty == CallFormat

SpecFormatEmpty == InitFormatEmpty /\ [][NextFormatEmpty]_vars

NilOrEmpty(p) == p = <<>> \/ IsEmpty(p[1])

\* C21 as stated: for a nil or empty metadata, Format returns the content
\* exactly unchanged.
C21_EmptyMetadataContentUnchanged ==
    (ret # <<>> /\ NilOrEmpty(arg.meta)) => ret[1] = arg.content

\* C21 amended: for a nil or empty metadata, Format returns the content
\* without its leading newlines and nothing else: the result is the part
\* of the content from its first token that is not a newline, so no block
\* is put in front of it.
C21_EmptyMetadataContentTrimmed ==
    (ret # <<>> /\ NilOrEmpty(arg.meta)) =>
        \E n \in 0..Len(arg.content) :
            /\ \A i \in 1..n : arg.content[i] = NL
            /\ ret[1] = SubSeq(arg.content, n + 1, Len(arg.content))
            /\ (ret[1] # <<>> => ret[1][1] # NL)

C21_Witness ==
    /\ ret # <<>>
    /\ arg.meta # <<>> /\ IsEmpty(arg.meta[1]) /\ arg.meta[1].RatedAt # <<>>
    /\ arg.content = <<NL, TXT, NL>>
    /\ ret[1] = <<TXT, NL>>

(***************************************************************************)
(* SpecParse: response.Parse on files that open with a fenced block, the   *)
(* block a mapping that decodes, a mapping that does not, or no mapping.   *)
(***************************************************************************)
\* a block Format wrote, and one whose duration is not a duration
GoodDoc == MarshalYAML([EmptyMetadata EXCEPT !.Model = "gpt-4", !.Input = 100,
                                             !.Rating = <<"good">>])
BadDurationDoc == [GoodDoc EXCEPT !.duration = Str("fast")]

Captures ==
    SeqsUpTo(Alphabet \cup {YamlTok(GoodDoc), YamlTok(BadDurationDoc)}, MaxBodyLen) \ {<<>>}

FileTexts ==
    {<<DASH, NL>> \o cap \o <<NL, DASH, NL>> \o post : cap \in Captures, post \in Bodies}
    \cup Contents

\* response.Parse: os.ReadFile, then ParseContent
Parse(readable, data) ==
    IF ~readable THEN [err |-> TRUE, meta |-> <<>>, content |-> <<>>]
    ELSE LET p == ParseContent(data)
         IN  [err |-> FALSE, meta |-> <<p.meta>>, content |-> p.content]

InitParse ==
    /\ arg \in [readable : BOOLEAN, data : FileTexts]
    /\ ret = <<>>
    /\ FormatIdle /\ FileIdle /\ ExecIdle /\ RouterIdle /\ RunIdle /\ AuxIdle

CallParse ==
    /\ ret = <<>>
    /\ ret' = <<Parse(arg.readable, arg.data)>>
    /\ UNCHANGED <<arg, fmtVars, fileVars, execVars, routerVars, runVars, auxVars>>

NextParse == CallParse

SpecParse == InitParse /\ [][NextParse]_vars

\* the file opens with a front-matter block that yaml.Unmarshal refuses
MalformedBlock(data) ==
    /\ FrontMatterMatch(data) # <<>>
    /\ LET docs == DocTokens(FrontMatterMatch(data)[1])
       IN  \/ \E i \in 1..Len(docs) : docs[i].t # "yaml"
           \/ Len(docs) > 1
           \/ \E i \in 1..Len(docs) : docs[i].t = "yaml" /\ docs[i].doc.duration.k = "str"

\* C22: when the file read begins with a front-matter block whose YAML is
\* malformed, Parse returns no error, an empty metadata and the whole text
\* of the file, verbatim, as content.
C22_MalformedBlockKeptVerbatim ==
    (ret # <<>> /\ arg.readable /\ MalformedBlock(arg.data)) =>
        ret[1] = [err |-> FALSE, meta |-> <<EmptyMetadata>>, content |-> arg.data]

C22_Witness ==
    /\ ret # <<>> /\ arg.readable
    /\ arg.data = <<DASH, NL, YamlTok(BadDurationDoc), NL, DASH, NL, NL, TXT>>
    /\ ret[1].content = arg.data
    /\ ret[1].meta = <<EmptyMetadata>>

(***************************************************************************)
(* SpecClientChat: llm.Client.Chat on what CreateChatCompletion returns:   *)
(* an error, or the decoded body of the provider's answer.  The body's     *)
(* usage is a struct value: a body without a usage block decodes to zero   *)
(* token counts.                                                           *)
(***************************************************************************)
MaxChoices == 2

TokenSamples == {0, 3, 7}

\* the body of the provider's answer: its choices and, if it has one, its
\* usage block (<<>> when the body has none)
ProviderBodies ==
    [Choices : SeqsUpTo({"", "text"}, MaxChoices),
     Model   : {"gpt-4-0613"},
     Usage   : {<<>>} \cup {<<[PromptTokens |-> p, CompletionTokens |-> c]>> :
                                p \in TokenSamples, c \in TokenSamples}]

NoResponse == [Content |-> "", Model |-> "", PromptTokens |-> 0, OutputTokens |-> 0]

\* Client.Chat
ClientChat(failed, body) ==
    IF failed THEN [err |-> "chat completion failed", resp |-> NoResponse]
    ELSE IF Len(body.Choices) = 0
    THEN [err |-> "no response choices returned", resp |-> NoResponse]
    ELSE [err |-> "",
          resp |-> [Content |-> body.Choices[1],
                    Model |-> body.Model,
                    PromptTokens |-> IF body.Usage = <<>> THEN 0 ELSE body.Usage[1].PromptTokens,
                    OutputTokens |-> IF body.Usage = <<>> THEN 0
                                     ELSE body.Usage[1].CompletionTokens]]

InitClientChat ==
    /\ arg \in [failed : BOOLEAN, body : ProviderBodies]
    /\ ret = <<>>
    /\ FormatIdle /\ FileIdle /\ ExecIdle /\ RouterIdle /\ RunIdle /\ AuxIdle

CallClientChat ==
    /\ ret = <<>>
    /\ ret' = <<ClientChat(arg.failed, arg.body)>>
    /\ UNCHANGED <<arg, fmtVars, fileVars, execVars, routerVars, runVars, auxVars>>

NextClientChat == CallClientChat

SpecClientChat == InitClientChat /\ [][NextClientChat]_vars

\* C23: a provider response without a choice, or without a token-usage
\* block, makes Chat return an error instead of a response.
C23_IncompleteResponseIsError ==
    (ret # <<>> /\ ~arg.failed
       /\ (Len(arg.body.Choices) = 0 \/ arg.body.Usage = <<>>)) => ret[1].err # ""

(***************************************************************************)
(* SpecRateLimit: config.ParseRateLimit on every short text over a small   *)
(* alphabet, and on texts whose number is at the limit of an int.          *)
(***************************************************************************)
MaxRateLen == 5

RateChars == {"0", "1", "r", "p", "s", "m", "h", " "}

\* "2147483647rpm", "2147483648rpm", "99999999999rph", "00000000012rps",
\* "-10rpm", "10rpd", "10rpm" followed by a newline
LongRateTexts ==
    {IntMaxDigits \o <<"r", "p", "m">>,
     <<"2", "1", "4", "7", "4", "8", "3", "6", "4", "8", "r", "p", "m">>,
     <<"9", "9", "9", "9", "9", "9", "9", "9", "9", "9", "9", "r", "p", "h">>,
     <<"0", "0", "0", "0", "0", "0", "0", "0", "0", "1", "2", "r", "p", "s">>,
     <<"-", "1", "0", "r", "p", "m">>,
     <<"1", "0", "r", "p", "d">>,
     <<"1", "0", "r", "p", "m", "\n">>}

RateTexts == SeqsUpTo(RateChars, MaxRateLen) \cup LongRateTexts

InitRateLimit ==
    /\ arg \in RateTexts
    /\ ret = <<>>
    /\ FormatIdle /\ FileIdle /\ ExecIdle /\ RouterIdle /\ RunIdle /\ AuxIdle

CallParseRateLimit ==
    /\ ret = <<>>
    /\ ret' = <<ParseRateLimit(arg)>>
    /\ UNCHANGED <<arg, fmtVars, fileVars, execVars, routerVars, runVars, auxVars>>

NextRateLimit == CallParseRateLimit

SpecRateLimit == InitRateLimit /\ [][NextRateLimit]_vars

\* the grammar <digits><rps|rpm|rph>, the whole text, with a digit that is
\* not zero
RateGrammar(txt) ==
    /\ Len(txt) >= 4
    /\ \A i \in 1..(Len(txt) - 3) : txt[i] \in Digits
    /\ \E i \in 1..(Len(txt) - 3) : txt[i] # "0"
    /\ txt[Len(txt) - 2] = "r" /\ txt[Len(txt) - 1] = "p"
    /\ txt[Len(txt)] \in {"s", "m", "h"}

RateNumber(txt) == SubSeq(txt, 1, Len(txt) - 3)

UnitDuration(ch) ==
    CASE ch = "s" -> SecondMs [] ch = "m" -> MinuteMs [] ch = "h" -> HourMs

\* C24 as stated: ParseRateLimit accepts exactly the texts of the grammar,
\* returning the number and the unit's duration, and returns an error for
\* every other text.
C24_AcceptsExactlyGrammar ==
    ret # <<>> =>
        IF RateGrammar(arg)
        THEN /\ ~ret[1].err /\ ~ret[1].none
             /\ ret[1].Value = Atoi(RateNumber(arg))
             /\ ret[1].Unit = UnitDuration(arg[Len(arg)])
        ELSE ret[1].err

\* C24 amended: ParseRateLimit accepts exactly the texts of the grammar
\* whose number fits an int, returning the number and the unit's duration;
\* for the empty text it returns no limit and no error; for every other
\* text it returns an error.
C24_AcceptsGrammarInRange ==
    ret # <<>> =>
        IF arg = <<>> THEN ~ret[1].err /\ ret[1].none
        ELSE IF RateGrammar(arg) /\ AtoiInRange(RateNumber(arg))
        THEN /\ ~ret[1].err /\ ~ret[1].none
             /\ ret[1].Value = Atoi(RateNumber(arg))
             /\ ret[1].Value > 0
             /\ ret[1].Unit = UnitDuration(arg[Len(arg)])
        ELSE ret[1].err

C24_Witness ==
    /\ arg = <<"1", "0", "r", "p", "m">>
    /\ ret = <<[err |-> FALSE, none |-> FALSE, Value |-> 10, Unit |-> MinuteMs]>>

(***************************************************************************)
(* SpecPaths: where a task's response lives, as computed by the engine     *)
(* (ResponseWriter.Write), by the preview (Executor.DryRun) and by the     *)
(* viewer (view.LoadResponses), each after plan.Load found the plan.  A    *)
(* path is the sequence of its elements, relative to the working           *)
(* directory; a file name is the sequence of its dot-separated parts.      *)
(***************************************************************************)
MaxPlanFiles == 2

PlanIDs == {"p1", "p2"}
Assistants == {"A", "B"}

\* a plan.toml: the assistant and the plan directory it lies in, and the
\* plan_id written inside it
PlanFiles == [assistant : Assistants, dir : PlanIDs, planID : PlanIDs]

Layouts ==
    {fs \in SUBSET PlanFiles :
        /\ Cardinality(fs) <= MaxPlanFiles
        /\ \A f, g \in fs : (f.assistant = g.assistant /\ f.dir = g.dir) => f = g}

\* query IDs: q1.md, q1.txt, a.b.md, q2.MD
QueryIDs == {<<"q1", "md">>, <<"q1", "txt">>, <<"a", "b", "md">>, <<"q2", "MD">>}

\* the first 8 hexadecimal digits of the SHA-256 of the model name
ModelHash(model) ==
    CASE model = "gpt-4" -> "1b1ae706"
      [] model = "claude-3" -> "aca83fc3"

\* filepath.Ext: from the last dot of the name, empty when there is none
Ext(name) == IF Len(name) > 1 THEN <<name[Len(name)]>> ELSE <<>>

\* strings.TrimSuffix(queryID, filepath.Ext(queryID)) + "_response.md"
responseFileName(queryID) ==
    [base |-> SubSeq(queryID, 1, Len(queryID) - Len(Ext(queryID))),
     tail |-> "_response.md"]

\* filepath.Dir of a path of several elements
Dir(path) == SubSeq(path, 1, Len(path) - 1)

\* plan.Load without the comparison of plan_id with the ID asked for
LoadUnchecked(files, planID) ==
    LET matches == {f \in files : f.dir = planID}
    IN  IF Cardinality(matches) # 1
        THEN [err |-> TRUE, PlanID |-> "", planPath |-> <<>>]
        ELSE LET f == CHOOSE x \in matches : TRUE
             IN  [err |-> FALSE, PlanID |-> f.planID,
                  planPath |-> <<f.assistant, "Output", f.dir, "plan.toml">>]

\* plan.Load: the glob */Output/<planID>/plan.toml must match one file,
\* whose plan_id must be the ID asked for
Load(files, planID) ==
    LET matches == {f \in files : f.dir = planID}
    IN  IF Cardinality(matches) # 1
        THEN [err |-> TRUE, PlanID |-> "", planPath |-> <<>>]
        ELSE LET f == CHOOSE x \in matches : TRUE
             IN  IF f.planID # planID
                 THEN [err |-> TRUE, PlanID |-> "", planPath |-> <<>>]
                 ELSE [err |-> FALSE, PlanID |-> f.planID,
                       planPath |-> <<f.assistant, "Output", f.dir, "plan.toml">>]

\* plan.AssistantDir
AssistantDir(planPath) == Dir(Dir(Dir(planPath)))

\* NewResponseWriter and ResponseWriter.Write: the path written
WritePath(assistantDir, planID, model, queryID) ==
    assistantDir \o <<"Output", planID, ModelHash(model), responseFileName(queryID)>>

\* Executor.DryRun: the path printed for a task, relative to the assistant
DryRunPath(planID, model, queryID) ==
    <<"Output", planID, ModelHash(model), responseFileName(queryID)>>

\* view.LoadResponses: the path read
ViewPath(planPath, model, queryID) ==
    Dir(planPath) \o <<ModelHash(model), responseFileName(queryID)>>

InitPaths ==
    /\ arg \in [files : Layouts, planID : PlanIDs, model : ModelNames, query : QueryIDs]
    /\ ret = <<>>
    /\ FormatIdle /\ FileIdle /\ ExecIdle /\ RouterIdle /\ RunIdle /\ AuxIdle

\* tuna exec, tuna exec --dry-run and tuna view on the same plan ID
CallPaths ==
    /\ ret = <<>>
    /\ LET l == Load(arg.files, arg.planID)
       IN  ret' = IF l.err
                  THEN <<[err |-> TRUE, written |-> <<>>, shown |-> <<>>, viewed |-> <<>>]>>
                  ELSE <<[err |-> FALSE,
                          written |-> WritePath(AssistantDir(l.planPath), l.PlanID,
                                                arg.model, arg.query),
                          shown   |-> DryRunPath(l.PlanID, arg.model, arg.query),
                          viewed  |-> ViewPath(l.planPath, arg.model, arg.query)]>>
    /\ UNCHANGED <<arg, fmtVars, fileVars, execVars, routerVars, runVars, auxVars>>

NextPaths == CallPaths

SpecPaths == InitPaths /\ [][NextPaths]_vars

\* C25: for a task of a plan, the path the engine writes, the path the
\* preview shows (taken from the assistant's directory) and the path the
\* viewer reads are the same:
\* Output/<planID>/<ModelHash(model)>/<query id without extension>_response.md
C25_OnePathPerTask ==
    (ret # <<>> /\ ~ret[1].err) =>
        /\ ret[1].written = ret[1].viewed
        /\ Len(ret[1].shown) = 4
        /\ ret[1].shown[1] = "Output"
        /\ ret[1].shown[2] = arg.planID
        /\ ret[1].shown[3] = ModelHash(arg.model)
        /\ ret[1].shown[4].tail = "_response.md"
        /\ ret[1].shown[4].base \o <<arg.query[Len(arg.query)]>> = arg.query
        /\ \E f \in arg.files : ret[1].written = <<f.assistant>> \o ret[1].shown

C25_Witness ==
    /\ ret # <<>> /\ ~ret[1].err
    /\ Cardinality(arg.files) = 2
    /\ arg.query = <<"a", "b", "md">>
    /\ arg.model = "claude-3"
    /\ ret[1].viewed = <<"B", "Output", "p2", "aca83fc3",
                         [base |-> <<"a", "b">>, tail |-> "_response.md"]>>

(***************************************************************************)
(* SpecTimed: the loop body of Execute for one task, against the clock     *)
(* that time.Now reads.  Time may pass between any two steps.              *)
(***************************************************************************)
MaxTime == 4

OtherIdle == FormatIdle /\ FileIdle /\ ExecIdle /\ RouterIdle /\ RunIdle /\ CallIdle

InitTimed ==
    /\ timed \in [phase : {"start"}, limited : BOOLEAN, clock : {0},
                  started : {NotYet}, gateAt : {NotYet}, callStart : {NotYet},
                  callEnd : {NotYet}, respDuration : {NotYet},
                  failed : {FALSE}, duration : {NotYet}, event : {<<>>}]
    /\ command = NoCommand /\ viewer = NoViewer
    /\ OtherIdle

TimedFrame ==
    UNCHANGED <<fmtVars, fileVars, execVars, routerVars, runVars, callVars, command, viewer>>

\* time passes
Elapse ==
    /\ timed.phase # "reported"
    /\ timed.clock < MaxTime
    /\ timed' = [timed EXCEPT !.clock = @ + 1]
    /\ TimedFrame

\* Execute: start := time.Now(), then executeOne is called
TimedStart ==
    /\ timed.phase = "start"
    /\ timed' = [timed EXCEPT !.started = timed.clock, !.phase = "read"]
    /\ TimedFrame

\* executeOne: os.ReadFile
TimedRead(ok) ==
    /\ timed.phase = "read"
    /\ timed' = IF ok THEN [timed EXCEPT !.phase = "gate"]
                ELSE [timed EXCEPT !.phase = "measure", !.failed = TRUE]
    /\ TimedFrame

\* Router.Chat: limiter.Wait is entered for a limited provider
TimedGate ==
    /\ timed.phase = "gate"
    /\ timed' = IF timed.limited
                THEN [timed EXCEPT !.phase = "waiting", !.gateAt = timed.clock]
                ELSE [timed EXCEPT !.phase = "call", !.callStart = timed.clock]
    /\ TimedFrame

\* Router.Chat: Wait returned nil; start := time.Now(), client.Chat is called
TimedAdmit ==
    /\ timed.phase = "waiting"
    /\ timed' = [timed EXCEPT !.phase = "call", !.callStart = timed.clock]
    /\ TimedFrame

\* Router.Chat: client.Chat returned, duration := time.Since(start), which
\* is put in the response
TimedCallReturns(ok) ==
    /\ timed.phase = "call"
    /\ timed' = [timed EXCEPT !.callEnd = timed.clock,
                              !.respDuration = timed.clock - timed.callStart,
                              !.failed = ~ok,
                              !.phase = IF ok THEN "write" ELSE "measure"]
    /\ TimedFrame

\* executeOne: writer.Write
TimedWrite(ok) ==
    /\ timed.phase = "write"
    /\ timed' = [timed EXCEPT !.phase = "measure", !.failed = ~ok]
    /\ TimedFrame

\* Execute: executeOne returned, duration := time.Since(start)
TimedMeasure ==
    /\ timed.phase = "measure"
    /\ timed' = [timed EXCEPT !.duration = timed.clock - timed.started, !.phase = "report"]
    /\ TimedFrame

\* Execute: the EventTaskDone or EventTaskError notification
TimedReport ==
    /\ timed.phase = "report"
    /\ timed' = [timed EXCEPT !.phase = "reported",
                    !.event = <<[Type |-> IF timed.failed THEN "error" ELSE "done",
                                 Duration |-> timed.duration]>>]
    /\ TimedFrame

NextTimed ==
    \/ Elapse
    \/ TimedStart
    \/ \E ok \in BOOLEAN : TimedRead(ok)
    \/ TimedGate
    \/ TimedAdmit
    \/ \E ok \in BOOLEAN : TimedCallReturns(ok)
    \/ \E ok \in BOOLEAN : TimedWrite(ok)
    \/ TimedMeasure
    \/ TimedReport

SpecTimed == InitTimed /\ [][NextTimed]_vars

\* C26: the duration reported for a task in its done or error event is the
\* duration of the provider call only: it is the time from the start of the
\* call to its return, without the wait at the rate limiter.
C26_DurationIsCallOnly ==
    (timed # <<>> /\ timed.event # <<>> /\ timed.callEnd # NotYet) =>
        timed.event[1].Duration = timed.callEnd - timed.callStart

(***************************************************************************)
(* SpecPlanPaths: the query IDs tuna plan collects from the Input          *)
(* directory (assistant.ListFiles with DefaultFilter) and the paths one    *)
(* Execute run over them writes, task by task.                             *)
(***************************************************************************)
MaxEntries == 3

\* the names in the Input directory, in the byte order sort.Strings uses:
\* .hidden.md  README  a.b.md  notes.pdf  q1.md  q1.txt  q2.MD
EntryNames ==
    <<<<"", "hidden", "md">>, <<"README">>, <<"a", "b", "md">>, <<"notes", "pdf">>,
      <<"q1", "md">>, <<"q1", "txt">>, <<"q2", "MD">>>>

NameRank(name) == CHOOSE i \in 1..Len(EntryNames) : EntryNames[i] = name

DirEntries ==
    {[name |-> EntryNames[i], isDir |-> FALSE] : i \in 1..Len(EntryNames)}
    \cup {[name |-> <<"q3", "md">>, isDir |-> TRUE]}

\* strings.ToLower of an extension
ToLower(s) == IF s = "MD" THEN "md" ELSE s

\* sort.Strings over the names kept
RECURSIVE SortNames(_)
SortNames(S) ==
    IF S = {} THEN <<>>
    ELSE LET first == CHOOSE n \in S : \A m \in S : NameRank(n) <= NameRank(m)
         IN  <<first>> \o SortNames(S \ {first})

\* assistant.ListFiles with DefaultFilter: no directories, no hidden files,
\* extension .txt or .md in any case; sorted
ListFiles(entries) ==
    SortNames({e.name : e \in {x \in entries :
                  /\ ~x.isDir
                  /\ x.name[1] # ""
                  /\ Ext(x.name) # <<>>
                  /\ ToLower(Ext(x.name)[1]) \in {"txt", "md"}}})

DistinctModels == {ms \in RunModels : \A i, j \in 1..Len(ms) : ms[i] = ms[j] => i = j}

InitPlanPaths ==
    /\ arg \in [entries : {es \in SUBSET DirEntries : Cardinality(es) <= MaxEntries},
                models  : DistinctModels]
    /\ ret = <<>>
    /\ FormatIdle /\ FileIdle /\ ExecIdle /\ RouterIdle /\ RunIdle /\ AuxIdle

\* the path each task of Execute hands to os.WriteFile, in the order of the
\* tasks: models outer, queries inner
WrittenPaths(ms, qs) ==
    [k \in 1..(Len(ms) * Len(qs)) |->
        LET model == ms[((k - 1) \div Len(qs)) + 1]
            query == qs[((k - 1) % Len(qs)) + 1]
        IN  [Model |-> model, QueryID |-> query,
             path |-> WritePath(<<"A">>, "p1", model, query)]]

\* tuna plan, then tuna exec with every task succeeding
PlanAndExecute ==
    /\ ret = <<>>
    /\ ret' = <<WrittenPaths(arg.models, ListFiles(arg.entries))>>
    /\ UNCHANGED <<arg, fmtVars, fileVars, execVars, routerVars, runVars, auxVars>>

NextPlanPaths == PlanAndExecute

SpecPlanPaths == InitPlanPaths /\ [][NextPlanPaths]_vars

\* C27: in one run over a plan whose models are pairwise distinct and whose
\* query IDs are pairwise distinct, no two tasks write the same path.
C27_DistinctTasksDistinctPaths ==
    ret # <<>> =>
        LET w == ret[1]
        IN  (\A i, j \in 1..Len(w) :
                (w[i].Model = w[j].Model /\ w[i].QueryID = w[j].QueryID) => i = j)
            => (\A i, j \in 1..Len(w) : w[i].path = w[j].path => i = j)

(***************************************************************************)
(* The exec TUI against the summary                                        *)
(***************************************************************************)
\* how many tasks of the TUI model have a status
CountStatus(status) == Cardinality({k \in 1..Len(tui.tasks) : tui.tasks[k].Status = status})

\* C28: once every progress event of a run Execute accepted has been
\* handled by the TUI model, in order, the model agrees with the summary:
\* as many tasks Complete as Results, as many Failed as Errors, none
\* Pending or Running, and the token totals shown are TotalTokens.
C28_TuiAgreesWithSummary ==
    (tui.done /\ summary # <<>>) =>
        /\ CountStatus("Complete") = Len(summary[1].Results)
        /\ CountStatus("Failed") = Len(summary[1].Errors)
        /\ CountStatus("Pending") = 0
        /\ CountStatus("Running") = 0
        /\ tui.prompt = summary[1].TotalTokens.Prompt
        /\ tui.output = summary[1].TotalTokens.Output

(***************************************************************************)
(* SpecInteractive: executeWithTUI (internal/command/exec.go).  Execute    *)
(* runs on a goroutine of its own; the command waits in program.Run, which *)
(* returns when the TUI model asks to quit: on ExecutionDoneMsg, or on the *)
(* keys q and ctrl+c.  The command then reads the summary variable the     *)
(* goroutine assigns when Execute returns.                                 *)
(***************************************************************************)
InitInteractive ==
    /\ models \in RunModels
    /\ queries \in RunQueries
    /\ pc = "Execute" /\ mi = 0 /\ qi = 0
    /\ outcome = NoOutcome /\ summary = <<>> /\ retErr = FALSE
    /\ events = <<>> /\ attempted = <<>>
    /\ ioCount = [reads |-> 0, chats |-> 0, writes |-> 0]
    /\ msgs = <<>>
    /\ tui = [tasks |-> NewTasks(models, queries), current |-> 0,
              prompt |-> 0, output |-> 0, done |-> FALSE]
    /\ command = [phase |-> "tui", readWhileRunning |-> FALSE, saw |-> <<>>]
    /\ timed = <<>> /\ viewer = NoViewer
    /\ FormatIdle /\ FileIdle /\ RouterIdle /\ RunIdle /\ CallIdle

InteractiveFrame ==
    UNCHANGED <<models, queries, pc, mi, qi, outcome, summary, retErr, events,
                attempted, ioCount, timed, viewer,
                fmtVars, fileVars, routerVars, runVars, callVars>>

\* the event loop handles a message while the program runs
TuiUpdateWhileRunning == command.phase = "tui" /\ TuiUpdate

\* Model.Update on the key q or ctrl+c returns tea.Quit: program.Run
\* returns, with Execute wherever it is
KeyQuit ==
    /\ command.phase = "tui"
    /\ ~tui.done
    /\ command' = [command EXCEPT !.phase = "afterRun"]
    /\ msgs' = <<>>
    /\ UNCHANGED tui
    /\ InteractiveFrame

\* Model.Update on ExecutionDoneMsg returned tea.Quit: program.Run returns
RunReturns ==
    /\ command.phase = "tui"
    /\ tui.done
    /\ command' = [command EXCEPT !.phase = "afterRun"]
    /\ UNCHANGED <<msgs, tui>>
    /\ InteractiveFrame

\* program.Send once the program has finished: the message is dropped and
\* the goroutine goes on
SendAfterQuit ==
    /\ command.phase # "tui"
    /\ msgs # <<>>
    /\ msgs' = <<>>
    /\ UNCHANGED <<tui, command>>
    /\ InteractiveFrame

\* executeWithTUI after program.Run: it reads summary and execErr, which
\* the goroutine has assigned only if Execute has returned
ReadSummary ==
    /\ command.phase = "afterRun"
    /\ command' = [phase |-> "returned",
                   readWhileRunning |-> ~Returned,
                   saw |-> IF Returned THEN summary ELSE <<>>]
    /\ UNCHANGED <<msgs, tui>>
    /\ InteractiveFrame

NextInteractive ==
    \/ ExecuteBegin
    \/ TaskStart
    \/ \E o \in Outcomes : ExecuteOne(o)
    \/ TaskReport
    \/ ExecutionDone
    \/ TuiUpdateWhileRunning
    \/ KeyQuit
    \/ RunReturns
    \/ SendAfterQuit
    \/ ReadSummary

SpecInteractive == InitInteractive /\ [][NextInteractive]_vars

\* C29: the command reads the summary and the error of the goroutine only
\* after Execute has returned, whatever the user does in the TUI.
C29_SummaryReadAfterReturn ==
    command.phase = "returned" => ~command.readWhileRunning

(***************************************************************************)
(* SpecViewer: tuna view on one response of a plan.  LoadResponses lists   *)
(* the response whether or not its file can be read; the rating keys set   *)
(* the rating in memory and call view.SaveRating on the file.              *)
(***************************************************************************)
\* the response files found on disk: none, or one the engine wrote, as it
\* was written or rated since
ViewerFiles ==
    {<<>>}
    \cup {<<Format([EmptyMetadata EXCEPT !.Model = "gpt-4", !.Input = 100,
                                         !.Rating = r, !.RatedAt = IF r = <<>> THEN <<>> ELSE <<1>>],
                   body)>> :
            r \in {<<>>, <<RatingGood>>, <<RatingBad>>}, body \in Bodies}

\* view.ParseResponse: the rating stored in a file; none when the file
\* cannot be read
StoredRating(f) ==
    IF f = <<>> THEN RatingNone
    ELSE LET match == FrontMatterMatch(f[1])
         IN  IF match # <<>> THEN viewUnmarshal(match[1]).Rating ELSE RatingNone

InitViewer ==
    /\ file \in ViewerFiles
    /\ prevFile = <<>> /\ wallClock = 2 /\ lastOp = [op |-> "none"]
    /\ viewer \in [loaded : {FALSE}, Rating : {RatingNone}, writable : BOOLEAN]
    /\ timed = <<>> /\ command = NoCommand
    /\ FormatIdle /\ ExecIdle /\ RouterIdle /\ RunIdle /\ CallIdle

ViewerFrame ==
    UNCHANGED <<fmtVars, execVars, routerVars, runVars, callVars, timed, command>>

\* view.LoadResponses: the response is listed with the rating parsed from
\* its file, or with no rating when ParseResponse fails
LoadResponses ==
    /\ ~viewer.loaded
    /\ viewer' = [viewer EXCEPT !.loaded = TRUE, !.Rating = StoredRating(file)]
    /\ UNCHANGED fileVars
    /\ ViewerFrame

\* Model.setRating: the rating is set in memory, then SaveRating is called
\* and its error dropped.  SaveRating fails in os.ReadFile when the file
\* does not exist and in os.WriteFile when it cannot be written.
setRating(rating) ==
    /\ viewer.loaded
    /\ wallClock < MaxClock
    /\ viewer' = [viewer EXCEPT !.Rating = rating]
    /\ IF file = <<>> \/ ~viewer.writable
       THEN UNCHANGED <<file, prevFile>>
       ELSE file' = <<SaveRatingText(file[1], rating, wallClock)>> /\ prevFile' = file
    /\ lastOp' = [op |-> "SaveRating", rating |-> rating, at |-> wallClock]
    /\ wallClock' = wallClock + 1
    /\ ViewerFrame

\* Model.toggleRating: none -> good -> bad -> none
toggleRating ==
    setRating(CASE viewer.Rating = RatingNone -> RatingGood
                [] viewer.Rating = RatingGood -> RatingBad
                [] viewer.Rating = RatingBad -> RatingNone)

NextViewer ==
    \/ LoadResponses
    \/ toggleRating
    \/ \E r \in Ratings : setRating(r)

SpecViewer == InitViewer /\ [][NextViewer]_vars

\* C30: after any rating action in the viewer on a response it lists,
\* whether or not the response's file exists and can be written, the rating
\* held in memory equals the rating stored in the file.
C30_MemoryRatingIsStoredRating ==
    (viewer.loaded /\ lastOp.op = "SaveRating") => viewer.Rating = StoredRating(file)

====
